---------------------------- MODULE Spec2Model ----------------------------
(***************************************************************************)
(* git-sync: mirror the repositories of a GitHub account to GitLab,        *)
(* Codeberg or Bitbucket.  The model follows main (one run of the tool),   *)
(* getGitHubRepos (the paginated source listing), mirrorReposFromGitHub    *)
(* (the local mirror cache) and the three provider adapters                *)
(* (the checkAndValidate and sync functions).  The local backup           *)
(* directory and the destination host are the environment: `disk' and      *)
(* `remote'.  git and HTTP calls answer nondeterministically.  `log' holds  *)
(* the lines the last step wrote, and transport (the logging RoundTripper) *)
(* is also modelled on its own.                                            *)
(***************************************************************************)
EXTENDS Integers, Sequences, FiniteSets, TLC

\* ------------------------------------------------------------------ bounds
\* Most repositories the source account holds in an ordinary run.
MaxRepos == 2
\* Most failures (git exit codes, HTTP faults) the environment injects in a run.
MaxFaults == 2
\* Length of the long run with a single failure (the partial-failure run).
LongRun == 5
\* Most full pages the source account fills in the listing-only specification.
MaxFullPages == 2
\* Size of a short (non-full) last page in the listing-only specification.
ShortPage == 37
\* Most runs of the tool in the rerun specification.
MaxRuns == 2
\* Repositories beyond the first full page in the two-page run.
ExtraRepos == 1
\* longest body, in bytes, sent through transport on its own
MaxBody == 2
\* Most page requests followed against a source that never serves an empty page.
MaxRequests == 3

\* ------------------------------------------------------- program constants
\* loadConfig: PerPage
PerPage == 100

Targets == {"gitlab", "codeberg", "bitbucket"}
\* the -target flag: one of the three names, or anything else (its default "")
FlagTargets == Targets \cup {""}
Policies == {"auto", "public", "private"}

VARIABLES
    pc,             \* position of main
    exitCode,       \* process exit status, -1 while running
    target,         \* -target flag
    repoFilter,     \* -repo flag, 0 for ""
    env,            \* environment variables: name -> value, "" when unset
    config,         \* the Config loadConfig returned
    github,         \* the source account's repositories, in listing order
    endless,        \* the source serves its first page whatever page is asked for
    page,           \* getGitHubRepos: page
    repos,          \* getGitHubRepos: repos, then main: repos
    requests,       \* source-listing requests issued in this run
    sleeps,         \* time.Sleep(config.SleepBetweenAPI) calls in this run
    listEnd,        \* how the loop of getGitHubRepos ended, "" while it runs:
                    \* "empty", "error" (status outside 2xx), "decode", "transport"
    groupRequests,  \* GitLab group-lookup requests issued in this run
    groupID,        \* main: gitlabGroupID, 0 for nil
    groupEnd,       \* how getGitLabGroupID ended: "" not called, "err", "panic"
    idx,            \* main: 1-based position of the for loop in repos
    repoVisibility, \* main: repoVisibility of the current iteration
    reposDone,      \* main: reposDone
    disk,           \* names whose <BackupDir>/<name>.git exists
    remote,         \* destination host: name -> "absent" or the visibility
    faults,         \* failures the environment may still inject
    ops,            \* git / provider operations issued in the current iteration
    outcome,        \* per finished iteration: "ok" or the phase that failed
    run,            \* number of the current run of the tool
    validated,      \* names whose check-and-validate succeeded in the previous run
    changed,        \* names whose source or destination changed since that run
    lastExit,       \* exit code of the previous run, -1 in the first run
    unpushed,       \* names created or updated at the destination whose push
                    \* then failed, and not pushed since
    mirrorEnd,      \* <<name, how its last mirrorReposFromGitHub ended>>: "ok",
                    \* "clone" (the clone failed) or "reclone" (the fetch and the
                    \* clone after it failed)
    backupDir,      \* whether the directory config.BackupDir exists
    log,            \* the lines the last step wrote to the log, in order
    trip            \* the last round trip through transport on its own

vars == <<pc, exitCode, target, repoFilter, env, config, github, endless, page, repos,
          requests, sleeps, listEnd, groupRequests, groupID, groupEnd, idx,
          repoVisibility, reposDone, disk, remote, faults, ops, outcome, run,
          validated, changed, lastExit, unpushed, mirrorEnd, backupDir, log,
          trip>>

\* what the operator and the source account give a run
inputs == <<target, repoFilter, env, github, endless>>
\* the counters of getGitHubRepos
listing == <<page, requests, sleeps, listEnd>>
\* the GitLab group lookup of main
group == <<groupRequests, groupID, groupEnd>>
\* the state of the for loop of main
loop == <<idx, repoVisibility, reposDone, ops, outcome>>
\* the backup directory and the destination
world == <<disk, remote, backupDir>>
\* what is remembered across runs
history == <<run, validated, changed, lastExit, unpushed, mirrorEnd>>

\* ------------------------------------------------------------ environment
GitHubRepo(n, p) == [Name |-> n, Private |-> p]

\* Environment variables each target needs (loadConfig, mustGetEnv).
mustGetEnvVars(t) ==
    {"GITHUB_USER", "GITHUB_TOKEN"} \cup
    CASE t = "gitlab" -> {"GITLAB_USER", "GITLAB_TOKEN"}
      [] t = "codeberg" -> {"CODEBERG_USER", "CODEBERG_TOKEN"}
      [] t = "bitbucket" -> {"BITBUCKET_EMAIL", "BITBUCKET_TOKEN", "BITBUCKET_WORKSPACE"}
      [] OTHER -> {}

EnvVars == UNION {mustGetEnvVars(t) : t \in Targets} \cup {"GITLAB_GROUP", "REPO_VISIBILITY"}

getEnv(key, defaultVal) == IF env[key] # "" THEN env[key] ELSE defaultVal

\* Visibilities a destination repository can have on the target.
RemoteVisibilities(t) ==
    IF t = "gitlab" THEN {"public", "private", "internal"} ELSE {"public", "private"}

Is2xx(status) == status >= 200 /\ status < 300


\* ---------------------------------------------------------------- the log
\* A URL as far as its credentials, its host and the repository it names go.  A
\* field holds the literal the code writes there, or the name of the Config
\* field whose value the code writes there ("GitHubToken" for
\* config.GitHubToken); ns is the owner, group or workspace, name the
\* repository, 0 for none.
URL(user, password, host, ns, name) ==
    [user |-> user, password |-> password, host |-> host, ns |-> ns, name |-> name]

NoURL == URL("", "", "", "", 0)

\* One line of the log: who wrote it, the values formatted into it in order, and
\* the URL formatted into it, NoURL for none.
Line(kind, values, url) == [kind |-> kind, values |-> values, url |-> url]

\* log.Printf, log.Fatal and log.Fatalf of main and of the provider functions:
\* none of them formats a URL.
Say(values) == Line("main", values, NoURL)

\* transport: the lines of one round trip.  The request and the response lines
\* carry req.Method, req.URL and the body that was read; headers are not logged.
TransportLines(url, reqErr, tripErr, resErr) ==
    <<IF reqErr THEN Line("http", <<"err">>, NoURL)
                ELSE Line("http", <<"Method", "reqAllBody">>, url)>>
    \o IF tripErr THEN <<Line("http", <<"err">>, NoURL)>>
       ELSE <<IF resErr THEN Line("http", <<"err">>, NoURL)
                        ELSE Line("http", <<"Method", "StatusCode", "resAllBody">>, url),
              Line("http", <<"Method", "StatusCode", "Since">>, url)>>

\* The lines a request function adds through its client: request bodies are
\* in-memory readers, a failed round trip is status 0.
RequestLines(url, status) == TransportLines(url, FALSE, status = 0, FALSE)

\* doGitHubRequest: the request URL; the credentials go into a header.
GitHubAPI == URL("", "", "api.github.com", "user", 0)

\* handle*Response and the lookups: the line for a status outside 2xx.
APIErrorLines(status) ==
    IF status # 0 /\ ~Is2xx(status) THEN <<Say(<<"StatusCode", "body">>)>> ELSE <<>>

\* runCmd: stdout and stderr of the git subprocess go to log.Writer() as they
\* are.  What git prints is git's: when it fails, its message may or may not
\* quote the URL of the remote it talked to.
GitOutputs(code, url) ==
    IF code = 0 THEN {<<Line("git", <<"output">>, NoURL)>>}
    ELSE {<<Line("git", <<"output">>, NoURL)>>, <<Line("git", <<"output">>, url)>>}

\* -------------------------------------------------------------- transport
\* A body stream: nil, bytes that read to their end, or bytes followed by a read
\* error (broken).
Body(bytes, broken) == [nil |-> FALSE, bytes |-> bytes, broken |-> broken]

NilBody == [nil |-> TRUE, bytes |-> <<>>, broken |-> FALSE]

ByteStrings == UNION {[1..n -> {0, 1}] : n \in 0..MaxBody}

\* io.ReadAll: the bytes read and the error that ended the reading.
ReadAll(b) == [data |-> b.bytes, err |-> b.broken]

\* What is left of a stream that io.ReadAll has read.
Drained(b) == [b EXCEPT !.bytes = <<>>]

\* The bodies the request functions hand to their client: nil, or a
\* strings.Reader / bytes.Reader.
RequestBodies == {NilBody} \cup {Body(b, FALSE) : b \in ByteStrings}

\* What http.DefaultTransport.RoundTrip returns: an error, or a response.
RoundTripResults ==
    {[err |-> TRUE, status |-> 0, body |-> NilBody]} \cup
    {[err |-> FALSE, status |-> s, body |-> Body(b, broken)] :
        s \in {200, 201, 404, 500}, b \in ByteStrings, broken \in BOOLEAN}

\* transport, the RoundTripper of the four clients: what it sends on (sent),
\* what it returns (res: hasRes, status, body; err) and what it logs.  err is
\* the variable the reading of the response body assigned last.
transport(url, req, under) ==
    LET rq == ReadAll(req)
        sent == IF req.nil THEN req
                ELSE IF rq.err THEN Drained(req)
                ELSE Body(rq.data, FALSE)
        rs == ReadAll(under.body)
    IN  IF under.err
        THEN [sent |-> sent, hasRes |-> FALSE, status |-> 0, body |-> NilBody,
              err |-> TRUE,
              lines |-> TransportLines(url, ~req.nil /\ rq.err, TRUE, FALSE)]
        ELSE [sent |-> sent, hasRes |-> TRUE, status |-> under.status,
              body |-> IF under.body.nil THEN under.body
                       ELSE IF rs.err THEN Drained(under.body)
                       ELSE Body(rs.data, FALSE),
              err |-> ~under.body.nil /\ rs.err,
              lines |-> TransportLines(url, ~req.nil /\ rq.err, FALSE,
                                       ~under.body.nil /\ rs.err)]

\* http.Client.Do on what the RoundTripper returned: with an error the response
\* is ignored.
Do(r) ==
    IF r.err THEN [err |-> TRUE, status |-> 0, body |-> NilBody]
    ELSE [err |-> FALSE, status |-> r.status, body |-> r.body]

\* No request has gone through transport on its own.
NoTrip == [done |-> FALSE]

\* ------------------------------------------------------------------- Init
ZeroConfig == [RepoVisibility |-> "", GitLabGroup |-> ""]

\* The environment of a run whose required variables are all set; the variables
\* of the targets not selected are unset.
EnvFor(t, vis, grp) ==
    [v \in EnvVars |->
        IF v \in mustGetEnvVars(t) THEN "set"
        ELSE IF v = "REPO_VISIBILITY" THEN vis
        ELSE IF v = "GITLAB_GROUP" /\ t = "gitlab" THEN grp
        ELSE ""]

\* What every run starts from: the first statement of main.
InitRun ==
    /\ pc = "start"
    /\ exitCode = -1
    /\ config = ZeroConfig
    /\ page = 1
    /\ repos = <<>>
    /\ requests = 0
    /\ sleeps = 0
    /\ listEnd = ""
    /\ groupRequests = 0
    /\ groupID = 0
    /\ groupEnd = ""
    /\ idx = 1
    /\ repoVisibility = ""
    /\ reposDone = 0
    /\ ops = <<>>
    /\ outcome = <<>>
    /\ log = <<>>
    /\ trip = NoTrip

InitHistory ==
    /\ run = 1
    /\ validated = {}
    /\ changed = {}
    /\ lastExit = -1
    /\ unpushed = {}
    /\ mirrorEnd = {}

\* A run that cannot pass setup: a target that is no provider, or a required
\* environment variable that is unset.
InitBadSetup ==
    /\ target \in FlagTargets
    /\ \E missing \in mustGetEnvVars(target) \cup {"none"} :
         /\ target = "" \/ missing # "none"
         /\ env = [v \in EnvVars |-> IF v = missing THEN "" ELSE EnvFor(target, "", "")[v]]
    /\ repoFilter = 0
    /\ github = <<GitHubRepo(1, FALSE)>>
    /\ disk = {}
    /\ backupDir = (disk # {})
    /\ endless = FALSE
    /\ remote = [n \in 1..1 |-> "absent"]
    /\ faults = 0

\* An ordinary run: up to MaxRepos source repositories, private and public in
\* turn starting with either, any state of the backup directory and of the
\* destination, up to MaxFaults injected failures.
InitOrdinary ==
    /\ target \in Targets
    /\ \E vis \in {"", "public", "private"}, grp \in {"", "grp"} :
         /\ grp = "" \/ target = "gitlab"
         /\ env = EnvFor(target, vis, grp)
    /\ \E n \in 0..MaxRepos :
         /\ \E evenPrivate \in BOOLEAN :
              github = [i \in 1..n |-> GitHubRepo(i, (i % 2 = 0) = evenPrivate)]
         /\ repoFilter \in {0, n, n + 1}
         /\ disk \in SUBSET (1..n)
         /\ backupDir = (disk # {})
         /\ endless = FALSE
         /\ remote \in [1..n -> {"absent"} \cup RemoteVisibilities(target)]
    /\ faults = MaxFaults

\* A long run over a fresh backup directory and destination, with one failure.
InitLong ==
    /\ target \in Targets
    /\ env = EnvFor(target, "", "")
    /\ github = [i \in 1..LongRun |-> GitHubRepo(i, i % 2 = 0)]
    /\ repoFilter = 0
    /\ disk = {}
    /\ backupDir = (disk # {})
    /\ endless = FALSE
    /\ remote = [n \in 1..LongRun |-> "absent"]
    /\ faults = 1

Init ==
    /\ InitRun
    /\ InitHistory
    /\ (InitBadSetup \/ InitOrdinary \/ InitLong)

\* ------------------------------------------------------------ main: setup
loadConfig ==
    [RepoVisibility |-> getEnv("REPO_VISIBILITY", "auto"),
     GitLabGroup |-> IF target = "gitlab" THEN getEnv("GITLAB_GROUP", "") ELSE ""]

Exit(code) ==
    /\ pc' = "exit"
    /\ exitCode' = code

\* A loadConfig that reads the variables of the target only when they are used.
MissingEnv_Lazy == {v \in {"GITHUB_USER", "GITHUB_TOKEN"} : env[v] = ""}

\* loadConfig: the variables whose mustGetEnv call is fatal.
MissingEnv == {v \in mustGetEnvVars(target) : env[v] = ""}

\* main: flag.Parse, the -target check, loadConfig (mustGetEnv is fatal).
Start ==
    /\ pc = "start"
    /\ IF target \notin Targets
       THEN Exit(2) /\ UNCHANGED config /\ log' = <<>>
       ELSE IF MissingEnv # {}
       THEN Exit(1) /\ UNCHANGED config /\ log' = <<Say(<<"key">>)>>
       ELSE /\ config' = loadConfig
            /\ pc' = "list"
            /\ log' = <<Say(<<>>), Say(<<"Timestamp">>)>>
            /\ UNCHANGED exitCode
    /\ UNCHANGED <<inputs, trip, listing, repos, group, loop, world,
                   faults, history>>

\* ------------------------------------------------------- getGitHubRepos
\* Statuses a failing server answers with.
FaultStatuses == {403, 500}

\* The page the source host serves for ?page=p&per_page=PerPage; a source that
\* ignores the page parameter serves page 1 again.
GitHubPage(p) ==
    LET q == IF endless THEN 1 ELSE p
        lo == (q - 1) * PerPage + 1
        hi == IF q * PerPage < Len(github) THEN q * PerPage ELSE Len(github)
    IN  SubSeq(github, lo, hi)

\* Responses to one listing request: status 0 is a transport error.
GitHubResponses(p) ==
    {[status |-> 200, decodes |-> TRUE, body |-> GitHubPage(p)]} \cup
    IF faults > 0
    THEN {[status |-> s, decodes |-> TRUE, body |-> <<>>] : s \in FaultStatuses \cup {0}}
         \cup {[status |-> 200, decodes |-> FALSE, body |-> <<>>]}
    ELSE {}

IsFault(resp) == resp.status = 0 \/ ~Is2xx(resp.status) \/ ~resp.decodes

handleGitHubResponse(resp) ==
    IF Is2xx(resp.status)
    THEN IF resp.decodes THEN [err |-> FALSE, batch |-> resp.body]
                         ELSE [err |-> TRUE, batch |-> <<>>]
    ELSE [err |-> TRUE, batch |-> <<>>]

\* A listing that takes a page that is not full for the last one.
ListStops_Short(batch) == Len(batch) < PerPage

\* len(batch) == 0: the loop of getGitHubRepos stops.
ListStops(batch) == Len(batch) = 0

\* A listing that hands main nothing when a page fails.
ListBreak_Discard(why) ==
    /\ pc' = "filter"
    /\ listEnd' = why
    /\ repos' = IF why = "empty" THEN repos ELSE <<>>
    /\ UNCHANGED <<exitCode, page, sleeps>>

\* A listing that waits once more before it leaves the loop.
ListBreak_Sleeps(why) ==
    /\ pc' = "filter"
    /\ listEnd' = why
    /\ sleeps' = sleeps + 1
    /\ UNCHANGED <<exitCode, repos, page>>

\* The loop of getGitHubRepos ends (break): the function returns repos and a nil
\* error, main goes on with repos.
ListBreak(why) ==
    /\ pc' = "filter"
    /\ listEnd' = why
    /\ UNCHANGED <<exitCode, repos, page, sleeps>>

\* A listing that keeps what it has when the request itself fails.
ListError_Partial == ListBreak("transport")

\* doGitHubRequest failed: getGitHubRepos returns (nil, err) and main ends the
\* run with log.Fatal(err).
ListError ==
    /\ Exit(1)
    /\ repos' = <<>>
    /\ listEnd' = "transport"
    /\ UNCHANGED <<page, sleeps>>

\* The lines of one iteration of the loop of getGitHubRepos, and of what follows
\* the loop when this iteration ends it.
ListLines(resp) ==
    RequestLines(GitHubAPI, resp.status) \o APIErrorLines(resp.status)
    \o (IF resp.status = 0 THEN <<Say(<<"err">>)>>
          ELSE IF handleGitHubResponse(resp).err \/ ListStops(handleGitHubResponse(resp).batch)
          THEN <<Say(<<"len(repos)">>), Say(<<"Name", "Private">>)>>
          ELSE <<>>)

\* One iteration of the loop of getGitHubRepos; a transport error returns the
\* error to main, which is fatal there.
\* A listing that keeps one entry, the first, per repository name.
Collect_Dedup(rs, batch) ==
    LET all == rs \o batch
        keep == {i \in DOMAIN all : \A j \in 1..(i - 1) : all[j].Name # all[i].Name}
    IN  [k \in 1..Cardinality(keep) |->
            all[CHOOSE i \in keep : Cardinality({j \in keep : j <= i}) = k]]

\* getGitHubRepos: repos = append(repos, batch...).
Collect(rs, batch) == rs \o batch

getGitHubRepos ==
    /\ pc = "list"
    /\ endless => requests < MaxRequests
    /\ \E resp \in GitHubResponses(page) :
         /\ requests' = requests + 1
         /\ faults' = IF IsFault(resp) THEN faults - 1 ELSE faults
         /\ log' = ListLines(resp)
         /\ IF resp.status = 0
            THEN ListError
            ELSE LET r == handleGitHubResponse(resp) IN
                 IF r.err
                 THEN ListBreak(IF Is2xx(resp.status) THEN "decode" ELSE "error")
                 ELSE IF ListStops(r.batch)
                 THEN ListBreak("empty")
                 ELSE /\ repos' = Collect(repos, r.batch)
                      /\ page' = page + 1
                      /\ sleeps' = sleeps + 1
                      /\ UNCHANGED <<pc, exitCode, listEnd>>
    /\ UNCHANGED <<inputs, trip, config, group, loop, world, history>>

\* ----------------------------------------------------- main: -repo filter
\* A test mode that checks the name is listed and then syncs everything.
FilterRepos_KeepAll(rs, name) ==
    IF \E i \in 1..Len(rs) : rs[i].Name = name THEN rs ELSE <<>>

\* The first listed repository named name, as a list of at most one.
FilterRepos(rs, name) ==
    LET hits == {i \in 1..Len(rs) : rs[i].Name = name}
    IN  IF hits = {} THEN <<>>
        ELSE <<rs[CHOOSE i \in hits : \A j \in hits : i <= j]>>

\* main: test mode; a filter that matches nothing is fatal.
Filter ==
    /\ pc = "filter"
    /\ IF repoFilter = 0
       THEN /\ pc' = "group"
            /\ UNCHANGED <<repos, exitCode>>
       ELSE IF FilterRepos(repos, repoFilter) = <<>>
       THEN /\ Exit(1)
            /\ UNCHANGED repos
       ELSE /\ repos' = FilterRepos(repos, repoFilter)
            /\ pc' = "group"
            /\ UNCHANGED exitCode
    /\ log' = IF repoFilter = 0 THEN <<>>
              ELSE IF FilterRepos(repos, repoFilter) = <<>> THEN <<Say(<<"repoFilter">>)>>
              ELSE <<Say(<<"repoFilter">>), Say(<<"Name">>)>>
    /\ UNCHANGED <<inputs, trip, config, listing, group, loop, world,
                   faults, history>>


\* ------------------------------------------------------ getGitLabGroupID
\* Responses of a provider to one request.  healthy is what a working server
\* answers; status 0 is a transport error; the last one is a 2xx response whose
\* body does not decode.
ZeroBody == [visibility |-> "", private |-> FALSE, id |-> 0]

Faulty(extra) ==
    IF faults > 0
    THEN {[status |-> s, decodes |-> TRUE, body |-> ZeroBody] : s \in FaultStatuses \cup extra \cup {0}}
         \cup {[status |-> 200, decodes |-> FALSE, body |-> ZeroBody]}
    ELSE {}

\* handleGitLabResponse, handleCodebergResponse, handleBitbucketResponse (with a
\* target to decode into): the decoded target, or an error.
handleResponse(resp) ==
    IF Is2xx(resp.status)
    THEN IF resp.decodes THEN [err |-> FALSE, result |-> resp.body]
                         ELSE [err |-> TRUE, result |-> ZeroBody]
    ELSE [err |-> TRUE, result |-> ZeroBody]

\* The id the destination gives the configured group.
GroupIDOnServer == 7

GroupResponses ==
    {[status |-> 200, decodes |-> TRUE, body |-> [ZeroBody EXCEPT !.id = GroupIDOnServer]]}
    \cup Faulty({404})

\* getGitLabGroupID after its request: "err", or "panic".  On a decoded response
\* the function asserts that the result is a pointer to struct{ ID int }, and
\* the value it holds points to a struct whose ID field carries the json tag:
\* the two types differ by the tag, the assertion panics, and no id is returned.
getGitLabGroupID(resp) ==
    IF resp.status = 0 THEN "err"
    ELSE IF handleResponse(resp).err THEN "err"
    ELSE "panic"

\* main: resolve the GitLab group, then leave when there is nothing to sync.
AfterSetup ==
    IF Len(repos) = 0
    THEN Exit(0) /\ UNCHANGED backupDir
    ELSE pc' = "loop" /\ backupDir' = TRUE /\ UNCHANGED exitCode

\* getGitLabGroupID: the request URL.
GroupURL == URL("", "", "gitlab.com", config.GitLabGroup, 0)

\* A main that drops the error of the group lookup and goes on without an id.
GroupFailed_Ignored == AfterSetup

\* main: getGitLabGroupID returned an error, log.Fatal(err).
GroupFailed == Exit(1) /\ UNCHANGED backupDir

ResolveGroup ==
    /\ pc = "group"
    /\ IF target = "gitlab" /\ config.GitLabGroup # ""
       THEN \E resp \in GroupResponses :
              /\ groupRequests' = groupRequests + 1
              /\ groupEnd' = getGitLabGroupID(resp)
              /\ faults' = IF IsFault(resp) THEN faults - 1 ELSE faults
              /\ IF getGitLabGroupID(resp) = "err" THEN GroupFailed
                 ELSE Exit(2) /\ UNCHANGED backupDir
              /\ log' = RequestLines(GroupURL, resp.status) \o APIErrorLines(resp.status)
                        \o (IF getGitLabGroupID(resp) = "err" THEN <<Say(<<"err">>)>> ELSE <<>>)
       ELSE /\ AfterSetup
            /\ log' = IF Len(repos) = 0 THEN <<Say(<<>>)>> ELSE <<>>
            /\ UNCHANGED <<groupRequests, groupEnd, faults>>
    /\ UNCHANGED <<inputs, trip, config, listing, repos, groupID, loop, disk, remote, history>>

\* --------------------------------------------------- main: the for loop
\* A derivation that follows the source repository whatever the policy says.
DesiredVisibility_IgnorePolicy(policy, private) ==
    IF private THEN "private" ELSE "public"

\* main: repoVisibility of one repository.
DesiredVisibility(policy, private) ==
    IF policy = "auto" THEN (IF private THEN "private" ELSE "public")
    ELSE IF policy # "" THEN policy
    ELSE "private"

repoName == repos[idx].Name

\* The loop of main takes its next repository, or main returns.
NextRepo ==
    /\ pc = "loop"
    /\ IF idx > Len(repos)
       THEN /\ Exit(0)
            /\ UNCHANGED <<repoVisibility, ops>>
       ELSE /\ repoVisibility' = DesiredVisibility(config.RepoVisibility, repos[idx].Private)
            /\ ops' = <<>>
            /\ pc' = "mirror"
            /\ UNCHANGED exitCode
    /\ log' = IF idx > Len(repos) THEN <<Say(<<>>)>> ELSE <<Say(<<"repoName">>)>>
    /\ UNCHANGED <<inputs, trip, config, listing, repos, group, idx,
                   reposDone, outcome, world, faults, history>>

\* A loop body that ends the run (log.Fatalf) where the code says `continue'.
EndIteration_Abort(result) ==
    /\ outcome' = Append(outcome, result)
    /\ IF result = "ok"
       THEN idx' = idx + 1 /\ reposDone' = reposDone + 1 /\ pc' = "loop" /\ UNCHANGED exitCode
       ELSE Exit(1) /\ UNCHANGED <<idx, reposDone>>

\* A loop body that counts every repository it went through.
EndIteration_CountAll(result) ==
    /\ idx' = idx + 1
    /\ outcome' = Append(outcome, result)
    /\ reposDone' = reposDone + 1
    /\ pc' = "loop"
    /\ UNCHANGED exitCode

\* A loop body that pushes again when the push failed.
EndIteration_RetryPush(result) ==
    IF result = "push"
    THEN /\ pc' = "push"
         /\ UNCHANGED <<idx, outcome, reposDone, exitCode>>
    ELSE /\ idx' = idx + 1
         /\ outcome' = Append(outcome, result)
         /\ reposDone' = IF result = "ok" THEN reposDone + 1 ELSE reposDone
         /\ pc' = "loop"
         /\ UNCHANGED exitCode

\* The iteration ends: `continue' after a failure, or the end of the body.
EndIteration(result) ==
    /\ idx' = idx + 1
    /\ outcome' = Append(outcome, result)
    /\ reposDone' = IF result = "ok" THEN reposDone + 1 ELSE reposDone
    /\ pc' = "loop"
    /\ UNCHANGED exitCode

\* A loop body that pushes the mirror without looking at the destination.
Continue_PushFirst(toPc) ==
    /\ pc' = IF toPc = "lookup" THEN "push" ELSE toPc
    /\ UNCHANGED <<idx, outcome, reposDone, exitCode>>

\* The iteration goes on with its next step.
Continue(toPc) ==
    /\ pc' = toPc
    /\ UNCHANGED <<idx, outcome, reposDone, exitCode>>

\* ------------------------------------------------ mirrorReposFromGitHub
\* Exit codes of a git subprocess (runCmd): 0, or a failure while faults last.
GitExits == {0} \cup (IF faults > 0 THEN {128} ELSE {})

\* A request function that sends every provider's requests to GitLab.
APIHost_Shared(t) == "gitlab.com"

\* doGitLabRequest, doCodebergRequest, doBitbucketRequest: the host of the URL.
APIHost(t) ==
    CASE t = "gitlab" -> "gitlab.com"
      [] t = "codeberg" -> "codeberg.org"
      [] t = "bitbucket" -> "api.bitbucket.org"

\* syncRepos, syncToCodeberg, syncToBitbucket: the host of pushURL.
PushHost(t) ==
    CASE t = "gitlab" -> "gitlab.com"
      [] t = "codeberg" -> "codeberg.org"
      [] t = "bitbucket" -> "bitbucket.org"

\* The host an operation of the case of the switch on *target talks to; clone
\* and fetch talk to the source, RemoveAll to none.
OpHost(name) ==
    IF name \in {"lookup", "create", "update"} THEN APIHost(target)
    ELSE IF name = "push" THEN PushHost(target)
    ELSE IF name = "remove" THEN ""
    ELSE "github.com"

\* mirrorReposFromGitHub: authCloneURL, the clone URL of the listing with
\* config.GitHubUser and config.GitHubToken put in.
authCloneURL == URL("GitHubUser", "GitHubToken", "github.com", "owner", repoName)

\* A lookup that looks under the user whatever namespace is configured.
projPath_UserOnly(gid, userName) == userName

\* getGitLabProject: the namespace of projPath; gid is 0 for a nil groupID.
projPath(gid, userName) ==
    IF gid # 0
    THEN (IF config.GitLabGroup # "" THEN config.GitLabGroup ELSE userName)
    ELSE userName

\* getGitLabProject, getCodebergRepo, getBitbucketRepo: the request URL.
LookupURL(t) ==
    URL("", "", APIHost(t),
        CASE t = "gitlab" -> projPath(groupID, "GitLabUser")
          [] t = "codeberg" -> "CodebergUser"
          [] t = "bitbucket" -> "BitbucketWs",
        repoName)

\* The create and update functions: the request URL.
MutationURL(t) ==
    URL("", "", APIHost(t), IF t = "gitlab" THEN "" ELSE LookupURL(t).ns,
        IF t = "gitlab" THEN 0 ELSE repoName)

\* syncRepos: pushURL.
syncRepos(gid, userName, gitlabToken, name) ==
    LET targetNamespace == IF gid = 0 THEN userName ELSE config.GitLabGroup
    IN  URL("oauth2", gitlabToken, "gitlab.com", targetNamespace, name)

\* syncToCodeberg: pushURL.
syncToCodeberg(owner, token, name) == URL(owner, token, "codeberg.org", owner, name)

\* A push URL that logs in as the account the API requests use.
syncToBitbucket_EmailUser(email, token, workspace, repoSlug) ==
    URL(email, token, "bitbucket.org", workspace, repoSlug)

\* syncToBitbucket: pushURL.
syncToBitbucket(email, token, workspace, repoSlug) ==
    URL("x-bitbucket-api-token-auth", token, "bitbucket.org", workspace, repoSlug)

\* main: the sync call of the case of the switch on *target.
pushURL(t) ==
    CASE t = "gitlab" -> syncRepos(groupID, "GitLabUser", "GitLabToken", repoName)
      [] t = "codeberg" -> syncToCodeberg("CodebergUser", "CodebergToken", repoName)
      [] t = "bitbucket" -> syncToBitbucket("BitbucketEmail", "BitbucketToken", "BitbucketWs", repoName)

\* The URL an operation is given or requests; the fetch talks to the remote the
\* clone recorded.
OpURL(name) ==
    CASE name \in {"clone", "fetch"} -> authCloneURL
      [] name = "push" -> pushURL(target)
      [] name = "lookup" -> LookupURL(target)
      [] name \in {"create", "update"} -> MutationURL(target)
      [] OTHER -> NoURL

\* The path of the group the destination keeps under an id.
GroupOfID(id) == IF id = GroupIDOnServer THEN "grp" ELSE ""

\* A create request that leaves namespace_id out.
createGitLabProject_NoNamespace(gid, userName) == userName

\* createGitLabProject: the namespace the destination creates the project in:
\* the group whose id is payload["namespace_id"], or, without one, the
\* namespace of the user the token belongs to.
createGitLabProject(gid, userName) ==
    IF gid # 0 THEN GroupOfID(gid) ELSE userName

\* The namespace (user, group, owner or workspace) of the destination
\* repository an operation addresses; the GitLab update addresses by proj.ID
\* the project the lookup returned.
OpNamespace(name) ==
    CASE name = "lookup" -> LookupURL(target).ns
      [] name = "create" -> IF target = "gitlab"
                            THEN createGitLabProject(groupID, "GitLabUser")
                            ELSE MutationURL(target).ns
      [] name = "update" -> LookupURL(target).ns
      [] name = "push" -> pushURL(target).ns
      [] OTHER -> ""

\* One entry of ops: the operation, its exit code or HTTP status, whether the
\* caller got an error, what it was about (the state a lookup met, the state a
\* create or update asked for), the repository it was for, the host it went
\* to, its URL and the namespace it addressed; decoded tells whether the body
\* of an HTTP answer was JSON of the expected shape (TRUE where there is none).
Op(name, status, err, arg) ==
    [op |-> name, status |-> status, err |-> err, arg |-> arg,
     repo |-> repoName, to |-> OpHost(name), url |-> OpURL(name),
     ns |-> OpNamespace(name), decoded |-> TRUE]

\* An entry of ops for the HTTP answer resp.
Answered(o, resp) == [o EXCEPT !.decoded = resp.status = 0 \/ resp.decodes]

\* A runCmd that reports an error whatever the subprocess did.
runCmd_AlwaysError(code) == TRUE

\* A check that finds every mirror in place.
IsNotExist_Never(name) == FALSE

\* mirrorReposFromGitHub and main: the lines around one git subprocess.
GitLines(before, out, failed, after) ==
    before \o out \o (IF failed THEN after ELSE <<>>)

\* A runCmd that drops the exit code of the subprocess.
runCmd_NoError(code) == FALSE

\* runCmd: cmd.Run() returns an error for a non-zero exit code.
runCmd(code) == code # 0

\* A recovery that leaves the stale mirror where it is.
RemoveAll_Keep(name) == disk

\* os.RemoveAll(localPath): the backup directory without the mirror.
RemoveAll(name) == disk \ {name}

\* A check that never finds the mirror.
IsNotExist_Always(name) == TRUE

\* os.Stat(localPath) says the mirror does not exist.
IsNotExist(name) == name \notin disk

\* mirrorReposFromGitHub returns for the current repository: end is "ok" for
\* nil, else the command whose error is returned.
Ensured(end) == {p \in mirrorEnd : p[1] # repoName} \cup {<<repoName, end>>}

\* localPath does not exist: git clone --mirror, and its error is returned.
mirrorClone ==
    /\ pc = "mirror"
    /\ IsNotExist(repoName)
    /\ \E code \in GitExits :
         /\ ops' = Append(ops, Op("clone", code, runCmd(code), ""))
         /\ faults' = IF code # 0 THEN faults - 1 ELSE faults
         /\ disk' = IF code = 0 THEN disk \cup {repoName} ELSE disk
         /\ mirrorEnd' = Ensured(IF runCmd(code) THEN "clone" ELSE "ok")
         /\ \E out \in GitOutputs(code, authCloneURL) :
              log' = GitLines(<<Say(<<"repoName">>)>>, out, runCmd(code), <<Say(<<"repoName", "err">>)>>)
         /\ IF runCmd(code) THEN EndIteration("mirror") ELSE Continue("lookup")
    /\ UNCHANGED <<inputs, trip, config, listing, repos, group,
                   repoVisibility, remote, backupDir, run, validated, changed,
                   lastExit, unpushed>>

\* localPath exists: git fetch --all --prune.
mirrorFetch ==
    /\ pc = "mirror"
    /\ ~IsNotExist(repoName)
    /\ \E code \in GitExits :
         /\ ops' = Append(ops, Op("fetch", code, runCmd(code), ""))
         /\ faults' = IF code # 0 THEN faults - 1 ELSE faults
         /\ \E out \in GitOutputs(code, authCloneURL) :
              log' = GitLines(<<>>, out, runCmd(code), <<Say(<<"repoName">>)>>)
         /\ mirrorEnd' = IF runCmd(code) THEN mirrorEnd ELSE Ensured("ok")
         /\ IF runCmd(code) THEN Continue("remove") ELSE Continue("lookup")
    /\ UNCHANGED <<inputs, trip, config, listing, repos, group,
                   repoVisibility, world, run, validated, changed, lastExit, unpushed>>

\* The fetch failed: os.RemoveAll(localPath).
mirrorRemoveAll ==
    /\ pc = "remove"
    /\ disk' = RemoveAll(repoName)
    /\ ops' = Append(ops, Op("remove", 0, FALSE, ""))
    /\ log' = <<>>
    /\ Continue("reclone")
    /\ UNCHANGED <<inputs, trip, config, listing, repos, group,
                   repoVisibility, remote, backupDir, faults, history>>

\* The fetch failed: git clone --mirror again, and its error is returned.
mirrorReclone ==
    /\ pc = "reclone"
    /\ \E code \in GitExits :
         /\ ops' = Append(ops, Op("clone", code, runCmd(code), ""))
         /\ faults' = IF code # 0 THEN faults - 1 ELSE faults
         /\ disk' = IF code = 0 THEN disk \cup {repoName} ELSE disk
         /\ mirrorEnd' = Ensured(IF runCmd(code) THEN "reclone" ELSE "ok")
         /\ \E out \in GitOutputs(code, authCloneURL) :
              log' = GitLines(<<>>, out, runCmd(code), <<Say(<<"repoName", "err">>)>>)
         /\ IF runCmd(code) THEN EndIteration("mirror") ELSE Continue("lookup")
    /\ UNCHANGED <<inputs, trip, config, listing, repos, group,
                   repoVisibility, remote, backupDir, run, validated, changed,
                   lastExit, unpushed>>


\* ---------------------------------------------------- provider adapters
\* A main that takes everything but public for private.
ToPrivate_NotPublic(visibility) == visibility # "public"

\* main: private := repoVisibility == "private" (Codeberg, Bitbucket)
ToPrivate(visibility) == visibility = "private"

\* What the destination stores for a repository created or updated as private
\* or not (Codeberg: private, Bitbucket: is_private).
FromPrivate(private) == IF private THEN "private" ELSE "public"

\* The JSON a working destination returns for a repository in state st.
ServerBody(t, st) ==
    IF t = "gitlab" THEN [ZeroBody EXCEPT !.visibility = st, !.id = 1]
    ELSE [ZeroBody EXCEPT !.private = (st = "private")]

\* Responses to GET <repository>: 404 when the destination has none.
LookupResponses(t, st) ==
    {IF st = "absent" THEN [status |-> 404, decodes |-> TRUE, body |-> ZeroBody]
                      ELSE [status |-> 200, decodes |-> TRUE, body |-> ServerBody(t, st)]}
    \cup Faulty({})

\* Responses to a create (201) or update (200) request asking for state st.
MutationResponses(t, okStatus, st) ==
    {[status |-> okStatus, decodes |-> TRUE, body |-> ServerBody(t, st)]} \cup Faulty({})

\* A Lookup result: an error, not found (nil, nil), or the repository.
LookupErr == [err |-> TRUE, found |-> FALSE, repo |-> ZeroBody]
LookupNil == [err |-> FALSE, found |-> FALSE, repo |-> ZeroBody]
LookupHit(r) == [err |-> FALSE, found |-> TRUE, repo |-> r]

getGitLabProject(resp) ==
    IF resp.status = 0 THEN LookupErr
    ELSE IF resp.status = 404 THEN LookupNil
    ELSE IF handleResponse(resp).err THEN LookupErr
    ELSE LookupHit(handleResponse(resp).result)

\* A lookup without the StatusNotFound branch.
getCodebergRepo_NotFoundIsError(resp) ==
    IF resp.status = 0 THEN LookupErr
    ELSE IF Is2xx(resp.status)
         THEN (IF resp.decodes THEN LookupHit(resp.body) ELSE LookupErr)
    ELSE LookupErr

getCodebergRepo(resp) ==
    IF resp.status = 0 THEN LookupErr
    ELSE IF resp.status = 404 THEN LookupNil
    ELSE IF Is2xx(resp.status)
         THEN (IF resp.decodes THEN LookupHit(resp.body) ELSE LookupErr)
    ELSE LookupErr

getBitbucketRepo(resp) ==
    IF resp.status = 0 THEN LookupErr
    ELSE IF resp.status = 404 THEN LookupNil
    ELSE IF handleResponse(resp).err THEN LookupErr
    ELSE LookupHit(handleResponse(resp).result)

\* A GitLab reconcile that updates whatever visibility it finds.
checkAndValidateGitLabRepos_AlwaysUpdate(proj, visibility) ==
    IF proj.err THEN "err"
    ELSE IF ~proj.found THEN "create"
    ELSE "update"

\* A Bitbucket reconcile that leaves an existing repository as it is.
checkAndValidateBitbucketRepo_NoUpdate(repo, private) ==
    IF repo.err THEN "err"
    ELSE IF ~repo.found THEN "create"
    ELSE "noop"

\* The branch each check-and-validate function takes after its lookup:
\* "err", "create", "update" or "noop".
checkAndValidateGitLabRepos(proj, visibility) ==
    IF proj.err THEN "err"
    ELSE IF ~proj.found THEN "create"
    ELSE IF proj.repo.visibility # visibility THEN "update"
    ELSE "noop"

\* A Codeberg reconcile that takes a failed lookup for a missing repository.
checkAndValidateCodebergRepo_CreateOnError(repo, private) ==
    IF repo.err THEN "create"
    ELSE IF ~repo.found THEN "create"
    ELSE IF repo.repo.private # private THEN "update"
    ELSE "noop"

checkAndValidateCodebergRepo(repo, private) ==
    IF repo.err THEN "err"
    ELSE IF ~repo.found THEN "create"
    ELSE IF repo.repo.private # private THEN "update"
    ELSE "noop"

checkAndValidateBitbucketRepo(repo, private) ==
    IF repo.err THEN "err"
    ELSE IF ~repo.found THEN "create"
    ELSE IF repo.repo.private # private THEN "update"
    ELSE "noop"

\* main: the switch on *target, up to the branch taken after the lookup.
checkAndValidate(t, resp, visibility) ==
    CASE t = "gitlab" -> checkAndValidateGitLabRepos(getGitLabProject(resp), visibility)
      [] t = "codeberg" -> checkAndValidateCodebergRepo(getCodebergRepo(resp), ToPrivate(visibility))
      [] t = "bitbucket" -> checkAndValidateBitbucketRepo(getBitbucketRepo(resp), ToPrivate(visibility))

\* A request body that carries the opposite of the desired privacy.
RequestedState_Inverted(t, visibility) ==
    IF visibility = "private" THEN "public" ELSE "private"

\* The state a create or update request asks the destination for.
RequestedState(t, visibility) ==
    IF t = "gitlab" THEN visibility ELSE FromPrivate(ToPrivate(visibility))

\* A reconcile that drops the error of the create call.
createOK_Always(t, resp) == TRUE

\* createGitLabProject, createCodebergRepo, createBitbucketRepo: nil error?
createOK(t, resp) == resp.status # 0 /\ ~handleResponse(resp).err

\* A GitLab update that hands its response to handleGitLabResponse.
updateOK_Handled(t, resp) == resp.status # 0 /\ ~handleResponse(resp).err

\* updateGitLabProjectVisibility wants 200; the other two any decoded 2xx.
updateOK(t, resp) ==
    IF t = "gitlab" THEN resp.status = 200
    ELSE resp.status # 0 /\ ~handleResponse(resp).err

\* The destination applies a request it answers with 2xx.
Applied(resp) == Is2xx(resp.status)

\* check-and-validate: the lookup and the branch it selects.
Lookup ==
    /\ pc = "lookup"
    /\ \E resp \in LookupResponses(target, remote[repoName]) :
         LET branch == checkAndValidate(target, resp, repoVisibility) IN
         /\ ops' = Append(ops, Answered(Op("lookup", resp.status, branch = "err", remote[repoName]), resp))
         /\ log' = RequestLines(LookupURL(target), resp.status)
                   \o (IF resp.status = 404 THEN <<>> ELSE APIErrorLines(resp.status))
                   \o (IF branch = "err" THEN <<Say(<<"repoName", "err">>)>>
                         ELSE IF target = "bitbucket" /\ branch # "noop" THEN <<>>
                         ELSE <<Say(<<"repoName", "Visibility">>)>>)
         /\ faults' = IF IsFault(resp) /\ resp.status # 404 THEN faults - 1 ELSE faults
         /\ CASE branch = "err" -> EndIteration("lookup")
              [] branch = "create" -> Continue("create")
              [] branch = "update" -> Continue("update")
              [] branch = "noop" -> Continue("push")
    /\ UNCHANGED <<inputs, trip, config, listing, repos, group,
                   repoVisibility, world, history>>

\* check-and-validate: the repository was not found, create it.
Create ==
    /\ pc = "create"
    /\ LET want == RequestedState(target, repoVisibility) IN
       \E resp \in MutationResponses(target, 201, want) :
         /\ ops' = Append(ops, Answered(Op("create", resp.status, ~createOK(target, resp), want), resp))
         /\ log' = RequestLines(MutationURL(target), resp.status) \o APIErrorLines(resp.status)
                   \o <<Say(IF createOK(target, resp) THEN <<"repoName">> ELSE <<"repoName", "err">>)>>
         /\ faults' = IF IsFault(resp) THEN faults - 1 ELSE faults
         /\ remote' = IF Applied(resp) THEN [remote EXCEPT ![repoName] = want] ELSE remote
         /\ IF createOK(target, resp) THEN Continue("push") ELSE EndIteration("create")
    /\ UNCHANGED <<inputs, trip, config, listing, repos, group,
                   repoVisibility, disk, backupDir, history>>

\* check-and-validate: the visibility differs, update it.
Update ==
    /\ pc = "update"
    /\ LET want == RequestedState(target, repoVisibility) IN
       \E resp \in MutationResponses(target, 200, want) :
         /\ ops' = Append(ops, Answered(Op("update", resp.status, ~updateOK(target, resp), want), resp))
         /\ log' = RequestLines(MutationURL(target), resp.status) \o APIErrorLines(resp.status)
                   \o <<Say(IF updateOK(target, resp) THEN <<"repoName">> ELSE <<"repoName", "err">>)>>
         /\ faults' = IF IsFault(resp) THEN faults - 1 ELSE faults
         /\ remote' = IF Applied(resp) THEN [remote EXCEPT ![repoName] = want] ELSE remote
         /\ IF updateOK(target, resp) THEN Continue("push") ELSE EndIteration("update")
    /\ UNCHANGED <<inputs, trip, config, listing, repos, group,
                   repoVisibility, disk, backupDir, history>>

\* A main that deletes the destination repository when the sync failed.
SyncFailed_Rollback == [remote EXCEPT ![repoName] = "absent"]

\* main: the sync function returned an error; main logs it and continues with
\* the next repository, and the destination stays as check-and-validate left it.
SyncFailed == remote

\* The repositories whose create or update succeeded and whose push then
\* failed, after the push of the current one.
Unpushed(failed) ==
    IF ~failed THEN unpushed \ {repoName}
    ELSE IF \E k \in DOMAIN ops : ops[k].op \in {"create", "update"} /\ ~ops[k].err
    THEN unpushed \cup {repoName}
    ELSE unpushed

\* syncRepos, syncToCodeberg, syncToBitbucket: git push --mirror.
Push ==
    /\ pc = "push"
    /\ \E code \in GitExits :
         /\ ops' = Append(ops, Op("push", code, runCmd(code), ""))
         /\ faults' = IF code # 0 THEN faults - 1 ELSE faults
         /\ remote' = IF runCmd(code) THEN SyncFailed ELSE remote
         /\ unpushed' = Unpushed(runCmd(code))
         /\ \E out \in GitOutputs(code, pushURL(target)) :
              log' = GitLines(<<Say(<<"repoName", "targetNamespace">>)>>, out, TRUE,
                              IF runCmd(code) THEN <<Say(<<"repoName", "err">>)>>
                              ELSE <<Say(<<"repoName">>), Say(<<"reposDone", "len(repos)">>)>>)
         /\ IF runCmd(code) THEN EndIteration("push") ELSE EndIteration("ok")
    /\ UNCHANGED <<inputs, trip, config, listing, repos, group,
                   repoVisibility, disk, backupDir, run, validated, changed, lastExit,
                   mirrorEnd>>

\* ----------------------------------------------------------------- Spec
Next ==
    \/ Start
    \/ getGitHubRepos
    \/ Filter
    \/ ResolveGroup
    \/ NextRepo
    \/ mirrorClone
    \/ mirrorFetch
    \/ mirrorRemoveAll
    \/ mirrorReclone
    \/ Lookup
    \/ Create
    \/ Update
    \/ Push

Spec == Init /\ [][Next]_vars

\* ---------------------------------------------- the listing on its own
\* The source account holds up to MaxFullPages full pages and a last page of 0,
\* 1, ShortPage or PerPage - 1 repositories; at most one request fails.
InitList ==
    /\ InitRun
    /\ InitHistory
    /\ target = "codeberg"
    /\ env = EnvFor(target, "", "")
    /\ \E full \in 0..MaxFullPages, last \in {0, 1, ShortPage, PerPage - 1} :
         github = [i \in 1..(full * PerPage + last) |-> GitHubRepo(i, i % 2 = 0)]
    /\ repoFilter = 0
    /\ disk = {}
    /\ backupDir = (disk # {})
    /\ endless = FALSE
    /\ remote = <<>>
    /\ faults \in {0, 1}

NextList ==
    \/ Start
    \/ getGitHubRepos

SpecList == InitList /\ [][NextList]_vars

\* ------------------------------------------ a run over a two-page account
\* The source account holds one full page and ExtraRepos more; the first
\* repository is mirrored already and private at the destination, the others
\* are new; one failure.
InitPartial ==
    /\ InitRun
    /\ InitHistory
    /\ target = "codeberg"
    /\ env = EnvFor(target, "", "")
    /\ github = [i \in 1..(PerPage + ExtraRepos) |-> GitHubRepo(i, i % 2 = 0)]
    /\ repoFilter = 0
    /\ disk = {1}
    /\ backupDir = (disk # {})
    /\ endless = FALSE
    /\ remote = [n \in 1..(PerPage + ExtraRepos) |-> IF n = 1 THEN "private" ELSE "absent"]
    /\ faults = 1

SpecPartial == InitPartial /\ [][Next]_vars

\* ------------------------------------------------- the tool run again
\* The run is over and the operator starts the tool again, with the same flags
\* and environment, on the backup directory and the destination as they are.
Rerun ==
    /\ pc = "exit"
    /\ run < MaxRuns
    /\ run' = run + 1
    /\ validated' = {repos[i].Name : i \in {j \in 1..Len(outcome) : outcome[j] \in {"ok", "push"}}}
    /\ changed' = {}
    /\ lastExit' = exitCode
    /\ unpushed' = unpushed
    /\ mirrorEnd' = mirrorEnd
    /\ pc' = "start"
    /\ exitCode' = -1
    /\ config' = ZeroConfig
    /\ page' = 1
    /\ repos' = <<>>
    /\ requests' = 0
    /\ sleeps' = 0
    /\ listEnd' = ""
    /\ groupRequests' = 0
    /\ groupID' = 0
    /\ groupEnd' = ""
    /\ idx' = 1
    /\ repoVisibility' = ""
    /\ reposDone' = 0
    /\ ops' = <<>>
    /\ outcome' = <<>>
    /\ log' = <<>>
    /\ UNCHANGED <<inputs, trip, world, faults>>

\* Before a later run starts, one source repository is made private or public.
SourceChange ==
    /\ pc = "start"
    /\ run > 1
    /\ changed = {}
    /\ \E i \in 1..Len(github) :
         /\ github' = [github EXCEPT ![i].Private = ~@]
         /\ changed' = changed \cup {github[i].Name}
         /\ unpushed' = unpushed \ {github[i].Name}
    /\ UNCHANGED <<pc, exitCode, target, repoFilter, env, endless, config, listing,
                   repos, group, loop, world, faults, run, validated,
                   lastExit, mirrorEnd, log, trip>>

\* Runs over a backup directory that starts empty; the source repositories are
\* public and private in turn until SourceChange toggles one; REPO_VISIBILITY
\* is unset (auto) or private.
InitRerun ==
    /\ InitRun
    /\ InitHistory
    /\ target \in Targets
    /\ \E vis \in {"", "private"} : env = EnvFor(target, vis, "")
    /\ \E n \in 1..MaxRepos :
         /\ github = [i \in 1..n |-> GitHubRepo(i, i % 2 = 0)]
         /\ remote \in [1..n -> {"absent"} \cup RemoteVisibilities(target)]
    /\ repoFilter = 0
    /\ disk = {}
    /\ backupDir = (disk # {})
    /\ endless = FALSE
    /\ faults = MaxFaults

NextRerun ==
    \/ Next
    \/ Rerun
    \/ SourceChange

SpecRerun == InitRerun /\ [][NextRerun]_vars

\* --------------------------------------- runs over a kept backup directory
\* Runs of one target over a backup directory that holds any of the mirrors
\* already, with a destination that has none of the repositories.
InitMirror ==
    /\ InitRun
    /\ InitHistory
    /\ target = "codeberg"
    /\ env = EnvFor(target, "", "")
    /\ \E n \in 1..MaxRepos :
         /\ github = [i \in 1..n |-> GitHubRepo(i, i % 2 = 0)]
         /\ disk \in SUBSET (1..n)
         /\ remote = [i \in 1..n |-> "absent"]
    /\ repoFilter = 0
    /\ backupDir = (disk # {})
    /\ endless = FALSE
    /\ faults = MaxFaults

SpecMirror == InitMirror /\ [][NextRerun]_vars

\* ------------------------------------------------- a run to its end
\* One run, with listings that repeat a name and sources that never serve an
\* empty page; main keeps taking its next step (every call returns).
InitLive ==
    /\ InitRun
    /\ InitHistory
    /\ target \in {"gitlab", "codeberg"}
    /\ \E grp \in {"", "grp"} :
         /\ grp = "" \/ target = "gitlab"
         /\ env = EnvFor(target, "", grp)
    /\ github \in UNION {[1..n -> {GitHubRepo(1, FALSE), GitHubRepo(2, TRUE)}] : n \in 0..MaxRepos}
    /\ endless \in BOOLEAN
    /\ endless => github # <<>>
    /\ repoFilter \in {0, 1}
    /\ disk \in {{}, {1}}
    /\ backupDir = (disk # {})
    /\ remote \in {[i \in 1..2 |-> "absent"], [i \in 1..2 |-> "public"]}
    /\ faults \in {0, 1}

SpecLive == InitLive /\ [][Next]_vars /\ WF_vars(Next)

\* ------------------------------------------------ transport on its own
\* One request through transport: the caller hands it a request body, and
\* http.DefaultTransport answers with an error or a response.
RoundTrip ==
    /\ \E req \in RequestBodies, under \in RoundTripResults :
         LET r == transport(GitHubAPI, req, under) IN
         /\ trip' = [done |-> TRUE, req |-> req, under |-> under,
                     sent |-> r.sent, got |-> Do(r)]
         /\ log' = r.lines
    /\ UNCHANGED <<pc, exitCode, inputs, config, listing, repos, group, loop,
                   world, faults, history>>

InitTransport ==
    /\ InitRun
    /\ InitHistory
    /\ target = "codeberg"
    /\ env = EnvFor(target, "", "")
    /\ github = <<>>
    /\ repoFilter = 0
    /\ disk = {}
    /\ backupDir = (disk # {})
    /\ endless = FALSE
    /\ remote = <<>>
    /\ faults = 0

SpecTransport == InitTransport /\ [][RoundTrip]_vars

\* ------------------------------------------ the provider calls on their own
\* check-and-validate and the sync function called for one mirrored
\* repository, by a caller that holds the id of the configured group or nil;
\* REPO_VISIBILITY is public, private or another value (internal).
InitAdapter ==
    /\ InitHistory
    /\ target \in Targets
    /\ \E vis \in {"public", "private", "internal"}, grp \in {"", "grp"} :
         /\ grp = "" \/ target = "gitlab"
         /\ env = EnvFor(target, vis, grp)
         /\ config = [RepoVisibility |-> vis, GitLabGroup |-> grp]
         /\ groupID = IF grp = "" THEN 0 ELSE GroupIDOnServer
         /\ groupRequests = IF grp = "" THEN 0 ELSE 1
         /\ repoVisibility = DesiredVisibility(vis, FALSE)
    /\ github = <<GitHubRepo(1, FALSE)>>
    /\ repos = github
    /\ repoFilter = 0
    /\ disk = {1}
    /\ backupDir = (disk # {})
    /\ endless = FALSE
    /\ remote \in [1..1 -> {"absent"} \cup RemoteVisibilities(target)]
    /\ faults \in {0, 1}
    /\ pc = "lookup"
    /\ exitCode = -1
    /\ page = 2
    /\ requests = 2
    /\ sleeps = 1
    /\ listEnd = "empty"
    /\ groupEnd = ""
    /\ idx = 1
    /\ reposDone = 0
    /\ ops = <<>>
    /\ outcome = <<>>
    /\ log = <<>>
    /\ trip = NoTrip

NextAdapter ==
    \/ Lookup
    \/ Create
    \/ Update
    \/ Push

SpecAdapter == InitAdapter /\ [][NextAdapter]_vars

TypeOK ==
    /\ pc \in {"start", "list", "filter", "group", "loop", "mirror", "remove",
               "reclone", "lookup", "create", "update", "push", "exit"}
    /\ exitCode \in {-1, 0, 1, 2}
    /\ endless \in BOOLEAN
    /\ reposDone \in 0..Len(repos)
    /\ faults >= 0


\* ============================================================ properties
\* The repository the entries of ops belong to: the current one, or the one
\* just finished when the loop is between two iterations.
Between == pc \in {"loop", "exit"}
IterIdx == IF Between THEN idx - 1 ELSE idx
IterName == repos[IterIdx].Name
OpsOf(names) == {k \in DOMAIN ops : ops[k].op \in names}
Last(S) == CHOOSE k \in S : \A j \in S : j <= k

FetchFailed == Len(ops) >= 1 /\ ops[1].op = "fetch" /\ ops[1].status # 0

\* C1: when the fetch on an existing mirror fails, the next thing done is to
\* delete the mirror directory, then exactly one clone is attempted, and if it
\* fails too the iteration ends there: no lookup, create, update or push.
C1_MirrorRecovery ==
    FetchFailed =>
      /\ Len(ops) = 1 => pc = "remove"
      /\ Len(ops) >= 2 => ops[2].op = "remove"
      /\ Len(ops) = 2 => pc = "reclone" /\ IterName \notin disk
      /\ Len(ops) >= 3 => ops[3].op = "clone"
      /\ OpsOf({"clone", "fetch", "remove"}) \subseteq 1..3
      /\ (Len(ops) >= 3 /\ ops[3].status # 0) =>
            /\ Len(ops) = 3
            /\ Between
            /\ outcome[IterIdx] = "mirror"
            /\ IterName \notin disk

C1_Witness ==
    /\ FetchFailed
    /\ Len(ops) = 3
    /\ ops[3].op = "clone" /\ ops[3].status # 0
    /\ pc = "loop"

\* Where a push is attempted: the pushes in ops, and the one about to be run.
PushPoints == OpsOf({"push"}) \cup (IF pc = "push" THEN {Len(ops) + 1} ELSE {})

\* C2: wherever a push is attempted, the last clone or fetch of the iteration
\* exited 0 and the mirror exists; after a failed fetch that is a clone.
C2_PushFromFreshMirror ==
    \A k \in PushPoints :
      LET git == {j \in 1..(k - 1) : ops[j].op \in {"clone", "fetch"}} IN
      /\ git # {}
      /\ ops[Last(git)].status = 0
      /\ FetchFailed => ops[Last(git)].op = "clone"
      /\ IterName \in disk

C2_Witness ==
    /\ FetchFailed
    /\ OpsOf({"push"}) # {}

\* C3: on every target, wherever a push is attempted the destination repository
\* exists and its visibility is the repoVisibility main computed for it.
C3_PushSeesDesiredVisibility ==
    \A k \in PushPoints :
      /\ target \in Targets
      /\ remote[IterName] # "absent"
      /\ remote[IterName] = repoVisibility

C3_Witness ==
    /\ target = "bitbucket"
    /\ Len(ops) = 4
    /\ ops[2].op = "lookup" /\ ops[2].arg = "public"
    /\ ops[3].op = "update" /\ ops[3].arg = "private"
    /\ ops[4].op = "push"
    /\ remote[IterName] = "private"

\* The step that follows entry k of ops: the next entry, or where main stands.
StepAfter(k) == IF k < Len(ops) THEN ops[k + 1].op ELSE pc
Mutations == OpsOf({"create", "update"})

\* C5: after a lookup that answered, on every target: an absent repository gets
\* one create asking for repoVisibility and nothing else; a repository that has
\* repoVisibility gets no create and no update; one with another visibility
\* gets one update asking for repoVisibility and nothing else.
C5_ReconcileDecision ==
    \A k \in OpsOf({"lookup"}) :
      ~ops[k].err =>
        LET state == ops[k].arg
            only == Mutations \subseteq {k + 1} /\
                    (k < Len(ops) => ops[k + 1].arg = repoVisibility)
        IN  /\ state = "absent" => StepAfter(k) = "create" /\ only
            /\ state = repoVisibility => StepAfter(k) = "push" /\ Mutations = {}
            /\ state \notin {"absent", repoVisibility} => StepAfter(k) = "update" /\ only

C5_Witness ==
    /\ target = "gitlab"
    /\ idx = 2
    /\ Len(ops) = 4
    /\ ops[2].op = "lookup" /\ ops[2].arg = "internal"
    /\ ops[3].op = "update" /\ ops[3].arg = repoVisibility /\ ~ops[3].err
    /\ ops[4].op = "push"

\* Where main stands inside the body of the for loop.
InBody == pc \in {"mirror", "remove", "reclone", "lookup", "create", "update", "push"}

\* C6: inside an iteration repoVisibility is "private" / "public" after the
\* repository's Private flag under the policy auto, "public" under the policy
\* public and "private" under the policy private.
C6_VisibilityDerivation ==
    InBody =>
      LET policy == IF env["REPO_VISIBILITY"] = "" THEN "auto" ELSE env["REPO_VISIBILITY"]
          isPrivate == repos[idx].Private
      IN  /\ policy \in Policies
          /\ (policy = "auto" /\ isPrivate) => repoVisibility = "private"
          /\ (policy = "auto" /\ ~isPrivate) => repoVisibility = "public"
          /\ policy = "public" => repoVisibility = "public"
          /\ policy = "private" => repoVisibility = "private"

C6_Witness ==
    /\ pc = "push"
    /\ env["REPO_VISIBILITY"] = "public"
    /\ repos[idx].Private
    /\ repoVisibility = "public"

\* reposDone counts the iterations that reached the end of the loop body.
Succeeded == {i \in DOMAIN outcome : outcome[i] = "ok"}

\* C7: on every target a lookup answered with 404 is no error and is followed
\* by the create; a lookup answered with another status outside 2xx is an error
\* that ends the iteration: no create, update or push, and no count.
C7_NotFoundMapping ==
    \A k \in OpsOf({"lookup"}) :
      /\ ops[k].status = 404 => ~ops[k].err /\ StepAfter(k) = "create"
      /\ (ops[k].status # 0 /\ ops[k].status # 404 /\ ~Is2xx(ops[k].status)) =>
            /\ ops[k].err
            /\ k = Len(ops)
            /\ Between
            /\ outcome[IterIdx] = "lookup"
            /\ IterIdx \notin Succeeded
            /\ reposDone = Cardinality(Succeeded)

C7_Witness ==
    /\ target = "codeberg"
    /\ Len(ops) = 3
    /\ ops[2].op = "lookup" /\ ops[2].status = 404
    /\ ops[3].op = "create" /\ ~ops[3].err
    /\ Len(outcome) = 1 /\ outcome[1] = "lookup"

\* C8: inside the loop the process has not exited; a run that finished at least
\* one iteration ends with exit code 0 after one iteration per listed
\* repository, whatever failed, and reposDone counts the successful ones.
C8_SkipAndContinue ==
    /\ (InBody \/ pc = "loop") => exitCode = -1 /\ Len(outcome) = idx - 1
    /\ (pc = "exit" /\ outcome # <<>>) =>
          /\ exitCode = 0
          /\ Len(outcome) = Len(repos)
          /\ reposDone = Cardinality(Succeeded)

C8_Witness ==
    /\ pc = "exit"
    /\ exitCode = 0
    /\ Len(repos) = 5
    /\ outcome = <<"ok", "ok", "lookup", "ok", "ok">>
    /\ reposDone = 4

\* Pages of PerPage repositories the listing needs for n repositories.
PagesFor(n) == (n + PerPage - 1) \div PerPage
FirstRepos(n) == SubSeq(github, 1, IF n < Len(github) THEN n ELSE Len(github))

\* C9: while it lists, getGitHubRepos has asked for pages 1 .. page - 1, one
\* request each, and holds their repositories in order; when it stops at an
\* empty page it has made one request per non-empty page plus one, full or
\* not, and returns the whole account.
C9_Pagination ==
    /\ pc = "list" =>
          /\ requests = page - 1
          /\ repos = FirstRepos((page - 1) * PerPage)
          /\ Len(github) > (page - 2) * PerPage
    /\ listEnd = "empty" =>
          /\ requests = page
          /\ requests = PagesFor(Len(github)) + 1
          /\ repos = github

C9_Witness ==
    /\ listEnd = "empty"
    /\ Len(github) = 2 * PerPage + ShortPage
    /\ Len(repos) = Len(github)
    /\ requests = 4

\* C10: when the first listing request is answered with a status outside 2xx
\* the run ends with a non-zero exit code and no iteration of the loop runs.
C10_FirstPageFatal ==
    (listEnd = "error" /\ page = 1 /\ requests = 1) =>
      /\ ~InBody /\ pc # "loop"
      /\ outcome = <<>> /\ ops = <<>>
      /\ pc = "exit" => exitCode # 0

\* The iteration issued no create and no update, and every lookup that got an
\* answer met a repository that already has repoVisibility.
NothingToReconcile ==
    /\ Mutations = {}
    /\ \A k \in OpsOf({"lookup"}) : ~ops[k].err => ops[k].arg = repoVisibility

\* C4 as stated: in a run that follows a run that ended with exit code 0, with
\* no source change in between, no iteration issues a create or an update and
\* every lookup that gets an answer meets a repository with the desired
\* visibility.
C4_AsStated ==
    (run >= 2 /\ lastExit = 0 /\ changed = {}) => NothingToReconcile

\* C4: in a run after the first, an iteration for a repository whose
\* check-and-validate succeeded in the previous run and whose source has not
\* changed since issues no create and no update, and every lookup that gets an
\* answer meets a repository with the desired visibility.
C4_Idempotence ==
    (run >= 2 /\ ops # <<>> /\ IterName \in validated /\ IterName \notin changed) =>
      NothingToReconcile

C4_Witness ==
    /\ run = 2
    /\ changed = {}
    /\ Len(ops) = 3
    /\ IterName \in validated
    /\ ops[1].op = "fetch"
    /\ ops[2].op = "lookup" /\ ~ops[2].err /\ ops[2].arg = repoVisibility
    /\ ops[3].op = "push"

\* The listing stopped at a page after the first that was answered with a
\* status outside 2xx.
LaterPageFailed == listEnd = "error" /\ page >= 2

SetupFailed ==
    \/ \E v \in mustGetEnvVars(target) : env[v] = ""
    \/ listEnd = "transport"
    \/ listEnd \in {"error", "decode"} /\ page = 1
    \/ listEnd # "" /\ repoFilter # 0 /\ FilterRepos(repos, repoFilter) = <<>>
    \/ groupEnd = "err"

\* C12: a run that has ended has exit code 2 if the target is none of the three
\* providers, else 1 if its setup failed, else 0.
C12_ExitCodes ==
    pc = "exit" =>
      exitCode = IF target \notin Targets THEN 2
                 ELSE IF SetupFailed THEN 1
                 ELSE 0

\* Where the listing was served and no GitLab group lookup was made, the exit
\* code is 2 for a target that is no provider, else 1 after a failed setup,
\* else 0.
ExitCodesWithoutGroup ==
    (pc = "exit" /\ groupRequests = 0 /\ listEnd \notin {"error", "decode"}) =>
      exitCode = IF target \notin Targets THEN 2
                 ELSE IF SetupFailed THEN 1
                 ELSE 0

\* What getGitHubRepos returned to main: the pages it appended.
Listed == FirstRepos((page - 1) * PerPage)

\* C13: with -repo set, once main is past the filter: if a listed repository
\* has that name, repos is that one entry and every operation of the run is
\* about it; if none has, the run has ended with exit code 1 and no mirror,
\* provider or group operation was made.
C13_SingleRepoFilter ==
    (repoFilter # 0 /\ listEnd \in {"empty", "error", "decode"} /\ pc # "filter") =>
      IF \E i \in DOMAIN Listed : Listed[i].Name = repoFilter
      THEN /\ Len(repos) = 1
           /\ repos[1].Name = repoFilter
           /\ \E i \in DOMAIN Listed : Listed[i] = repos[1]
           /\ Len(outcome) <= 1
           /\ ops # <<>> => IterName = repoFilter
      ELSE /\ pc = "exit"
           /\ exitCode = 1
           /\ ops = <<>> /\ outcome = <<>>
           /\ groupRequests = 0

C13_Witness ==
    /\ repoFilter = 2
    /\ Len(github) = 2
    /\ pc = "exit"
    /\ outcome = <<"ok">>
    /\ repos = <<github[2]>>

\* A GitLab run with a group configured.
GroupConfigured == target = "gitlab" /\ config.GitLabGroup # ""

\* At most one group lookup per run, made before the first iteration and only
\* for a GitLab run with a group; a failed lookup ends the run with exit code 1
\* before any iteration.
GroupLookupOnce ==
    /\ groupRequests <= 1
    /\ ~GroupConfigured => groupRequests = 0
    /\ (GroupConfigured /\ (pc = "loop" \/ InBody)) => groupRequests = 1
    /\ groupRequests = 1 => pc = "exit" /\ outcome = <<>> /\ ops = <<>>
    /\ groupEnd = "err" => exitCode = 1

\* C14: a GitLab run with a group makes one group lookup before its first
\* iteration; when the lookup is answered, main holds the id the server gave
\* and the run goes on to its repositories with it; when the lookup fails the
\* run ends, non-zero, with nothing mirrored or mutated; without a group, or on
\* another target, no group lookup is made.
C14_GroupResolution ==
    /\ groupRequests <= 1
    /\ ~GroupConfigured => groupRequests = 0
    /\ (GroupConfigured /\ (pc = "loop" \/ InBody)) => groupRequests = 1
    /\ groupEnd = "err" => pc = "exit" /\ exitCode # 0 /\ outcome = <<>> /\ ops = <<>>
    /\ (groupRequests = 1 /\ groupEnd # "err") =>
          /\ groupID = GroupIDOnServer
          /\ pc = "exit" => exitCode = 0 /\ Len(outcome) = Len(repos)

\* The phase of an operation: mirror, lookup, mutation, push.
Phase(o) ==
    CASE o \in {"clone", "fetch", "remove"} -> 1
      [] o = "lookup" -> 2
      [] o \in {"create", "update"} -> 3
      [] o = "push" -> 4

\* C15: the operations of an iteration come in the order mirror, lookup,
\* create or update, push, each later phase after the one before it; they are
\* all for the one repository the loop stands at, and they start only when
\* every earlier repository has its outcome.
C15_SequentialOrder ==
    /\ \A j, k \in DOMAIN ops : j < k =>
          /\ Phase(ops[j].op) <= Phase(ops[k].op)
          /\ Phase(ops[j].op) >= 2 => Phase(ops[j].op) < Phase(ops[k].op)
    /\ \A k \in DOMAIN ops :
          /\ ops[k].repo = IterName
          /\ Phase(ops[k].op) = 2 => k > 1 /\ Phase(ops[k - 1].op) = 1
          /\ Phase(ops[k].op) = 3 => k > 1 /\ Phase(ops[k - 1].op) = 2
          /\ Phase(ops[k].op) = 4 => k > 1 /\ Phase(ops[k - 1].op) \in {2, 3}
    /\ InBody => Len(outcome) = idx - 1
    /\ (Between /\ ops # <<>>) => Len(outcome) = idx - 1

C15_Witness ==
    /\ idx = 3
    /\ pc = "loop"
    /\ Len(ops) = 4
    /\ ops[1].op = "clone" /\ ops[2].op = "lookup"
    /\ ops[3].op = "create" /\ ops[4].op = "push"
    /\ ops[4].repo = repos[2].Name
    /\ Len(outcome) = 2

\* The iteration whose operations ops holds went through all three phases: no
\* operation but a fetch that was recovered from returned an error, and the
\* last one is the push.
AllPhasesOK ==
    /\ ops # <<>>
    /\ ops[Len(ops)].op = "push"
    /\ \A k \in DOMAIN ops : ops[k].err => ops[k].op = "fetch"

\* What reposDone says at every point of a run.
CounterInvariant ==
    /\ pc \in {"start", "list", "filter", "group"} => reposDone = 0
    /\ reposDone = Cardinality(Succeeded)
    /\ reposDone <= Len(outcome)
    /\ Len(outcome) <= Len(repos)
    /\ (Between /\ ops # <<>>) => (outcome[IterIdx] = "ok" <=> AllPhasesOK)

\* How reposDone changes in a step: not at all, or by one, in the step that ends
\* an iteration whose push succeeded.
CounterStep ==
    \/ reposDone' = reposDone
    \/ /\ reposDone' = reposDone + 1
       /\ pc = "push"
       /\ AllPhasesOK'
       /\ Len(outcome') = Len(outcome) + 1

\* C16: reposDone starts at 0, never decreases, goes up by one exactly when an
\* iteration ends with mirror, reconcile and push all successful, and is never
\* more than the number of iterations finished; at the end it is the number of
\* repositories that went through all three phases.
C16_SuccessCounter == []CounterInvariant /\ [][CounterStep]_vars

C16_Witness ==
    /\ pc = "exit"
    /\ Len(repos) = 2
    /\ outcome = <<"push", "ok">>
    /\ reposDone = 1

AtMostOne(names) == Cardinality(OpsOf(names)) <= 1

\* C17: an iteration makes at most one fetch, one clone, one lookup, one create
\* or update and one push; a clone follows a fetch only when that fetch failed;
\* an operation that failed, other than the fetch, is the last of its
\* iteration; and no repository gets a second iteration in the run.
C17_BoundedRetry ==
    /\ AtMostOne({"fetch"})
    /\ AtMostOne({"clone"})
    /\ AtMostOne({"lookup"})
    /\ AtMostOne({"create", "update"})
    /\ AtMostOne({"push"})
    /\ (OpsOf({"fetch"}) # {} /\ OpsOf({"clone"}) # {}) => FetchFailed
    /\ \A k \in DOMAIN ops :
          (ops[k].err /\ ops[k].op # "fetch") => k = Len(ops) /\ Between
    /\ Len(outcome) <= Len(repos)
    /\ \A i, j \in DOMAIN repos : repos[i].Name = repos[j].Name => i = j

C17_Witness ==
    /\ Len(ops) = 5
    /\ ops[1].op = "fetch" /\ ops[1].err
    /\ ops[3].op = "clone" /\ ~ops[3].err
    /\ ops[5].op = "push" /\ ops[5].err
    /\ pc = "loop"

\* The lookup at entry k of ops returned (nil, nil): the repository is absent.
ReturnedAbsent(k) ==
    /\ k \in DOMAIN ops
    /\ ops[k].op = "lookup"
    /\ ops[k].status = 404
    /\ ~ops[k].err

\* C18: a create, issued or about to be, comes right after a lookup of the same
\* iteration that returned absent; after a lookup that found the repository or
\* failed there is none.
C18_CreateOnlyAfterAbsent ==
    /\ \A k \in OpsOf({"create"}) : ReturnedAbsent(k - 1)
    /\ pc = "create" => ReturnedAbsent(Len(ops))
    /\ \A k \in OpsOf({"lookup"}) :
          ~ReturnedAbsent(k) => OpsOf({"create"}) = {} /\ pc # "create"

C18_Witness ==
    /\ target = "gitlab"
    /\ pc = "loop"
    /\ Len(ops) = 3
    /\ ReturnedAbsent(2)
    /\ ops[3].op = "create" /\ ops[3].err
    /\ idx = 3
    /\ ops[3].repo = repos[2].Name

\* The operation at entry k of ops failed: the caller got an error, the git
\* subprocess exited non-zero, or the request got no answer or a status outside
\* 2xx (a 404 to a lookup is no failure).
OpFailed(k) ==
    \/ ops[k].err
    \/ ops[k].op \in {"clone", "fetch", "push"} /\ ops[k].status # 0
    \/ /\ ops[k].op \in {"lookup", "create", "update"}
       /\ ~Is2xx(ops[k].status)
       /\ ~(ops[k].op = "lookup" /\ ops[k].status = 404)

\* ensureMirror succeeded: the last clone or fetch of the iteration did.
MirrorOK ==
    LET git == OpsOf({"clone", "fetch"}) IN git # {} /\ ~OpFailed(Last(git))

\* The reconcile step succeeded: the lookup did, and the create or update it
\* selected, if any, was made and succeeded.
ReconcileOK ==
    /\ \E k \in OpsOf({"lookup"}) : ~OpFailed(k)
    /\ pc \notin {"create", "update"}
    /\ \A k \in Mutations : ~OpFailed(k)

\* C19: a push is attempted, or about to be, exactly when the mirror step and
\* the reconcile step of the same iteration succeeded; a failed mirror step is
\* followed by no lookup, a failed lookup by no create or update, a failed
\* create or update by no push; and a lookup that met the desired visibility is
\* followed by the push.
C19_PushIffEarlierPhasesOK ==
    /\ PushPoints # {} <=> (MirrorOK /\ ReconcileOK)
    /\ (OpsOf({"clone", "fetch"}) # {} /\ ~MirrorOK /\ pc # "remove" /\ pc # "reclone") =>
          OpsOf({"lookup", "create", "update", "push"}) = {} /\ Between
    /\ \A k \in OpsOf({"lookup", "create", "update"}) :
          OpFailed(k) => k = Len(ops) /\ Between
    /\ \A k \in OpsOf({"lookup"}) :
          (~OpFailed(k) /\ ops[k].arg = repoVisibility) => StepAfter(k) = "push"

C19_Witness ==
    /\ pc = "push"
    /\ Len(ops) = 2
    /\ ops[1].op = "fetch" /\ ~ops[1].err
    /\ ops[2].op = "lookup" /\ ~ops[2].err /\ ops[2].arg = repoVisibility

\* The hosts of each destination provider.
ProviderHosts ==
    [t \in Targets |->
        CASE t = "gitlab" -> {"gitlab.com"}
          [] t = "codeberg" -> {"codeberg.org"}
          [] t = "bitbucket" -> {"api.bitbucket.org", "bitbucket.org"}]

\* C20: in a run with target T every lookup, create, update and push goes to a
\* host of T, and no operation of the run goes to a host of another provider.
C20_OneProvider ==
    \A k \in DOMAIN ops :
      /\ ops[k].op \in {"lookup", "create", "update", "push"} =>
            target \in Targets /\ ops[k].to \in ProviderHosts[target]
      /\ \A t \in Targets \ {target} : ops[k].to \notin ProviderHosts[t]

C20_Witness ==
    /\ target = "bitbucket"
    /\ Len(ops) = 4
    /\ ops[2].op = "lookup" /\ ops[2].to = "api.bitbucket.org"
    /\ ops[3].op = "create" /\ ops[3].to = "api.bitbucket.org"
    /\ ops[4].op = "push" /\ ops[4].to = "bitbucket.org"


\* A step taken at the start of the mirror phase of a repository whose mirror
\* path does not exist.
C21_Start ==
    (pc = "mirror" /\ repos[idx].Name \notin disk) =>
        /\ Len(ops') = 1
        /\ ops'[1].op = "clone"
        /\ ops'[1].status = 0 =>
             /\ repos[idx].Name \in disk'
             /\ pc' = "lookup"
             /\ idx' = idx
        /\ ops'[1].status # 0 =>
             /\ ops'[1].err
             /\ disk' = disk
             /\ pc' = "loop"
             /\ exitCode' = -1
             /\ idx' = idx + 1
             /\ outcome' = Append(outcome, "mirror")
             /\ reposDone' = reposDone

\* An iteration that began with a clone: no second clone, no fetch, no delete.
C21_After ==
    (Len(ops) >= 1 /\ ops[1].op = "clone") =>
        /\ OpsOf({"clone"}) = {1}
        /\ OpsOf({"fetch", "remove"}) = {}
        /\ ops[1].status = 0 => IterName \in disk
        /\ ops[1].status # 0 =>
             /\ Len(ops) = 1
             /\ Between
             /\ outcome[IterIdx] = "mirror"

\* C21: when the local mirror path of a repository does not exist, the mirror
\* phase runs exactly one mirror clone and no fetch; when the clone succeeds
\* the mirror exists, and when it fails its error is returned without a retry,
\* the iteration ends as a mirror failure and the loop goes on with the next
\* repository.
C21_NotClonedPath == []C21_After /\ [][C21_Start]_vars

\* The clone of the first repository failed, with no other failure before it,
\* and the second repository, cloned, is at its lookup.
C21_Witness ==
    /\ pc = "lookup"
    /\ idx = 2
    /\ outcome = <<"mirror">>
    /\ faults = MaxFaults - 1
    /\ 1 \notin disk
    /\ ops[1].op = "clone"
    /\ ops[1].status = 0
    /\ 2 \in disk

\* The secrets of the configuration, and whether a log line shows one: as a
\* value formatted into it, or as the password of a URL formatted into it.
Secrets == {"GitHubToken", "GitLabToken", "CodebergToken", "BitbucketToken"}
ShowsSecret(line) ==
    \/ \E i \in DOMAIN line.values : line.values[i] \in Secrets
    \/ line.url.password \in Secrets

\* The lines main, the provider functions and transport format themselves show
\* no secret.
OwnLinesClean == \A i \in DOMAIN log : log[i].kind # "git" => ~ShowsSecret(log[i])

\* C22: no line of the log (progress and error lines, the request and response
\* lines of transport, the forwarded output of git) shows a token or a clone or
\* push URL that carries one.
C22_NoCredentialInLog == \A i \in DOMAIN log : ~ShowsSecret(log[i])

\* C23: a GitLab lookup addresses <group>/<name> when a group namespace is
\* configured, and <user>/<name> when none is.
C23_ProjectAddressing ==
    target = "gitlab" =>
        \A k \in OpsOf({"lookup"}) :
            /\ ops[k].url.host = "gitlab.com"
            /\ ops[k].url.name = ops[k].repo
            /\ ops[k].url.ns = IF config.GitLabGroup # "" THEN config.GitLabGroup
                               ELSE "GitLabUser"

\* A lookup was made with the group grp configured, and found the project.
C23_Witness ==
    /\ target = "gitlab"
    /\ config.GitLabGroup = "grp"
    /\ groupID # 0
    /\ Len(ops) >= 1
    /\ ops[1].op = "lookup"
    /\ ops[1].status = 200
    /\ ops[1].url.ns = "grp"

\* The push URL of a repository as the identity on the destination, the name
\* and the secret give it.
PushTargetURL(t, name) ==
    CASE t = "gitlab" -> URL("oauth2", "GitLabToken", "gitlab.com", "GitLabUser", name)
      [] t = "codeberg" -> URL("CodebergUser", "CodebergToken", "codeberg.org", "CodebergUser", name)
      [] t = "bitbucket" -> URL("x-bitbucket-api-token-auth", "BitbucketToken", "bitbucket.org",
                                "BitbucketWs", name)

\* The URL of every push is the one its identity, name and secret give; the
\* Bitbucket URL is the same whatever the account email is.
C24_URL ==
    /\ \A k \in OpsOf({"push"}) :
         /\ ops[k].url = PushTargetURL(target, ops[k].repo)
         /\ ops[k].url.host = ops[k].to
    /\ \A email \in {"BitbucketEmail", "other@example.org", ""} :
         syncToBitbucket(email, "BitbucketToken", "BitbucketWs", 1)
             = PushTargetURL("bitbucket", 1)

\* The step that builds the push URL and pushes sends no request to the source
\* or the destination API: the one operation it adds is the git push.
C24_Step ==
    pc = "push" =>
        /\ requests' = requests
        /\ groupRequests' = groupRequests
        /\ ops' = Append(ops, ops'[Len(ops')])
        /\ ops'[Len(ops')].op = "push"
        /\ remote' = remote

RequiredVars(t) ==
    {"GITHUB_USER", "GITHUB_TOKEN"} \cup
    (IF t = "gitlab" THEN {"GITLAB_USER", "GITLAB_TOKEN"}
     ELSE IF t = "codeberg" THEN {"CODEBERG_USER", "CODEBERG_TOKEN"}
     ELSE {"BITBUCKET_EMAIL", "BITBUCKET_TOKEN", "BITBUCKET_WORKSPACE"})

Unset(t) == {v \in RequiredVars(t) : env[v] = ""}

\* With a required variable unset the run has done nothing when it ends with
\* exit code 1; with all of them set, and those of the other targets unset, the
\* run gets to the listing.
C25_State ==
    target \in Targets =>
        /\ Unset(target) # {} =>
             /\ pc \in {"start", "exit"}
             /\ pc = "exit" => exitCode = 1
             /\ requests = 0
             /\ groupRequests = 0
             /\ ops = <<>>
             /\ outcome = <<>>
        /\ (Unset(target) = {} /\ pc # "start" /\ run = 1) =>
             pc = "list" \/ requests > 0

\* With a required variable unset no step changes the backup directory or the
\* destination.
C25_Step ==
    (target \in Targets /\ Unset(target) # {}) =>
        /\ disk' = disk
        /\ backupDir' = backupDir
        /\ remote' = remote

C26_Start ==
    (pc = "mirror" /\ repos[idx].Name \in disk) =>
        /\ Len(ops') = 1
        /\ ops'[1].op = "fetch"
        /\ ops'[1].status = 0 =>
             /\ ~ops'[1].err
             /\ disk' = disk
             /\ pc' = "lookup"
             /\ idx' = idx

\* An iteration that began with a successful fetch: no second fetch, no delete
\* of the mirror directory, no clone, and the mirror is still there.
C26_After ==
    (Len(ops) >= 1 /\ ops[1].op = "fetch" /\ ops[1].status = 0) =>
        /\ OpsOf({"fetch"}) = {1}
        /\ OpsOf({"remove", "clone"}) = {}
        /\ IterName \in disk

\* C26: when the local mirror path exists and the fetch succeeds, the mirror
\* phase runs exactly one fetch, does not delete the mirror directory and runs
\* no clone.
C26_ClonedPathFetchOK == []C26_After /\ [][C26_Start]_vars

\* An iteration that began with a successful fetch has pushed.
C26_Witness ==
    /\ Between
    /\ Len(ops) >= 3
    /\ ops[1].op = "fetch"
    /\ ops[1].status = 0
    /\ ops[Len(ops)].op = "push"
    /\ ops[Len(ops)].status = 0
    /\ IterName \in disk

\* transport hands on the request body it was given, and a response whose body
\* reads to its end reaches the caller with its status and its body.
TransportKeepsReadableBodies ==
    trip.done =>
        /\ trip.sent = trip.req
        /\ (~trip.under.err /\ ~trip.under.body.broken) =>
             /\ ~trip.got.err
             /\ trip.got.status = trip.under.status
             /\ trip.got.body = trip.under.body

\* C27: the request body transport sends to the underlying transport equals the
\* caller's body, and the response the caller gets has the body that was
\* received and the status code that was received.
C27_BodiesPreserved ==
    trip.done =>
        /\ trip.sent = trip.req
        /\ ~trip.under.err =>
             /\ ~trip.got.err
             /\ trip.got.status = trip.under.status
             /\ trip.got.body = trip.under.body

\* Every listing request but the last is followed by one call of
\* time.Sleep(config.SleepBetweenAPI), which the next request follows; the
\* request that ends the listing is followed by none.
C28_State ==
    /\ requests = 0 => sleeps = 0
    /\ (pc = "list" /\ listEnd = "") => sleeps = requests /\ page = requests + 1
    /\ listEnd # "" => sleeps = requests - 1

\* A step of the listing makes one request and at most one delay; no other
\* step makes either.
C28_Step ==
    /\ pc = "list" => requests' = requests + 1 /\ sleeps' \in {sleeps, sleeps + 1}
    /\ pc \notin {"list", "exit"} => requests' = requests /\ sleeps' = sleeps

\* C28: between two consecutive listing page requests there is exactly one
\* delay, there is none before the first request, and none around the provider
\* calls and the git operations.
C28_InterPageDelay == []C28_State /\ [][C28_Step]_vars

\* Three page requests and two delays, and the loop has pushed a repository.
C28_Witness ==
    /\ listEnd = "empty"
    /\ requests = 3
    /\ sleeps = 2
    /\ Len(outcome) >= 1
    /\ outcome[1] = "ok"

\* How a listing that ended leaves the run.
C29_State ==
    /\ listEnd = "transport" =>
         /\ repos = <<>>
         /\ pc = "exit"
         /\ exitCode = 1
         /\ ops = <<>>
         /\ outcome = <<>>
         /\ idx = 1
         /\ reposDone = 0
         /\ groupRequests = 0
    /\ (listEnd \in {"error", "decode"} /\ repoFilter = 0) =>
         /\ repos = FirstRepos((requests - 1) * PerPage)
         /\ pc = "exit" => exitCode # 1

\* After a transport failure of the listing nothing changes in the backup
\* directory or at the destination.
C29_Step ==
    listEnd = "transport" => disk' = disk /\ backupDir' = backupDir /\ remote' = remote

\* C29: a transport-level failure of a listing page request, the first or a
\* later one, makes the lister return an error and drop every repository
\* collected so far, and the run ends without processing any repository; only
\* a status outside 2xx and a body that does not decode leave a partial list.
C29_ListingTransportFailure == []C29_State /\ [][C29_Step]_vars

\* The request for the second page failed in transport after a full first page.
C29_Witness ==
    /\ listEnd = "transport"
    /\ requests = 2
    /\ sleeps = 1
    /\ repos = <<>>
    /\ exitCode = 1

\* The listing main got is empty and no -repo filter is set.
EmptyListing ==
    /\ pc \notin {"start", "list"}
    /\ listEnd \in {"empty", "error", "decode"}
    /\ repoFilter = 0
    /\ Len(repos) = 0

\* An empty listing without a GitLab group: nothing is done and the exit code
\* is 0.
EmptyListingWithoutGroup ==
    (EmptyListing /\ ~GroupConfigured) =>
        /\ ops = <<>>
        /\ outcome = <<>>
        /\ groupRequests = 0
        /\ backupDir = (disk # {})
        /\ endless = FALSE
        /\ pc = "exit" => exitCode = 0

\* C30: when the listing returned is empty and no filter is set, the run issues
\* no mirror, lookup, create, update or push, does not create the backup
\* directory and exits with code 0.
C30_EmptyListing ==
    EmptyListing =>
        /\ ops = <<>>
        /\ outcome = <<>>
        /\ backupDir = (disk # {})
        /\ endless = FALSE
        /\ pc = "exit" => exitCode = 0

\* Where main stands before the for loop.
InSetup == pc \in {"start", "list", "filter", "group"}

\* A fatal error of the setup has happened: the listing request failed, the
\* -repo filter names no listed repository, or the group lookup failed.
FatalSetupError ==
    \/ listEnd = "transport"
    \/ pc \notin {"start", "list", "filter"} /\ repoFilter # 0 /\
       ~\E i \in DOMAIN Listed : Listed[i].Name = repoFilter
    \/ groupEnd = "err"

\* Once a fatal setup error has happened the run has ended, non-zero, and no
\* iteration of the loop was started; so has every run that ended non-zero.
C31_State ==
    (FatalSetupError \/ (pc = "exit" /\ exitCode # 0)) =>
      /\ pc = "exit"
      /\ exitCode # 0
      /\ ops = <<>>
      /\ outcome = <<>>
      /\ idx = 1
      /\ reposDone = 0

\* No step of the setup touches a mirror or the destination, and the step that
\* ends the run non-zero is a step of the setup that leaves the backup
\* directory as it is.
C31_Step ==
    /\ InSetup => UNCHANGED <<disk, remote>>
    /\ (exitCode = -1 /\ exitCode' \notin {-1, 0}) =>
          /\ InSetup
          /\ UNCHANGED <<disk, remote, backupDir, ops, outcome>>

\* C31: a fatal setup error (listing request failed, filtered repository not
\* listed, GitLab group lookup failed) ends the run before the first iteration
\* of the loop: no clone, fetch or removal of a mirror and no create, update or
\* push was issued, and the mirrors and the destination are as the run found
\* them.
C31_SetupErrorsBeforeLoop == []C31_State /\ [][C31_Step]_vars

C31_Witness ==
    /\ pc = "exit"
    /\ exitCode = 1
    /\ groupEnd = "err"
    /\ Len(repos) = 2
    /\ disk = {1}
    /\ remote[1] = "absent"
    /\ ops = <<>>

\* The state the tool asks the destination for, for the source repository
\* named n as the source lists it now.
DesiredAtDestination(n) ==
    LET i == CHOOSE j \in DOMAIN github : github[j].Name = n
    IN  RequestedState(target, DesiredVisibility(getEnv("REPO_VISIBILITY", "auto"),
                                                 github[i].Private))

\* The iteration's create or update succeeded and its push failed.
MutatedThenPushFailed ==
    /\ \E k \in Mutations : ~ops[k].err
    /\ \E k \in OpsOf({"push"}) : ops[k].err

\* After a push that failed behind a successful create or update the
\* destination holds what was asked for and the repository is not counted;
\* that stays so until the repository comes up again; and when it does, in a
\* later run, the lookup finds it with the desired visibility and the push is
\* the only thing that follows.
C32_State ==
    /\ MutatedThenPushFailed =>
          /\ Between
          /\ remote[IterName] = ops[Last(Mutations)].arg
          /\ remote[IterName] = repoVisibility
          /\ outcome[IterIdx] = "push"
          /\ IterIdx \notin Succeeded
          /\ reposDone = Cardinality(Succeeded)
          /\ IterName \in unpushed
    /\ \A n \in unpushed :
          /\ \E j \in DOMAIN github : github[j].Name = n
          /\ remote[n] # "absent"
          /\ remote[n] = DesiredAtDestination(n)
    /\ (InBody /\ repoName \in unpushed) =>
          /\ run >= 2
          /\ Mutations = {}
          /\ \A k \in OpsOf({"lookup"}) :
                ~ops[k].err => ops[k].arg = repoVisibility /\ StepAfter(k) = "push"

\* The destination changes only where a create or an update is applied, for
\* the repository of the iteration, and never loses a repository.
C32_Step ==
    remote' # remote =>
      /\ pc \in {"create", "update"}
      /\ DOMAIN remote' = DOMAIN remote
      /\ \A n \in DOMAIN remote :
            remote'[n] # remote[n] => n = repoName /\ remote'[n] # "absent"

\* C32: no rollback.  When the create or the update of a repository succeeded
\* and its push then fails, what was created or updated stays at the
\* destination and the repository is not counted as done; a following run
\* finds the repository there with the desired visibility, issues no create and
\* no update, and pushes.
C32_NoRollback == []C32_State /\ [][C32_Step]_vars

C32_Witness ==
    /\ run = 2
    /\ pc = "push"
    /\ repoName \in unpushed
    /\ Len(ops) = 2
    /\ ops[1].op = "fetch"
    /\ ops[2].op = "lookup" /\ ~ops[2].err /\ ops[2].arg = repoVisibility
    /\ lastExit = 0

\* The operations of an iteration that address the destination repository.
Addressed == OpsOf({"lookup", "create", "update", "push"})

\* C33: on GitLab the lookup, the create, the update and the push of an
\* iteration address the project in one namespace: the configured group when
\* the caller holds a group id, the user otherwise; a group id is held only
\* with a group configured.
C33_NamespaceConsistency ==
    target = "gitlab" =>
      /\ groupID # 0 => config.GitLabGroup # ""
      /\ \A k \in Addressed :
            /\ ops[k].ns = IF groupID # 0 THEN config.GitLabGroup ELSE "GitLabUser"
            /\ ops[k].ns # ""
            /\ ops[k].op \in {"lookup", "push"} => ops[k].url.ns = ops[k].ns
            /\ ops[k].op \in {"lookup", "push"} => ops[k].url.name = ops[k].repo
            /\ \A j \in Addressed : ops[j].ns = ops[k].ns /\ ops[j].repo = ops[k].repo

C33_Witness ==
    /\ target = "gitlab"
    /\ groupID = GroupIDOnServer
    /\ Len(ops) = 3
    /\ ops[1].op = "lookup" /\ ops[1].status = 404
    /\ ops[2].op = "create" /\ ~ops[2].err
    /\ ops[3].op = "push"
    /\ ops[2].ns = "grp"

\* The iteration ended at entry k of ops: the repository is skipped.
SkippedAt(k) ==
    /\ k = Len(ops)
    /\ Between
    /\ outcome[IterIdx] = ops[k].op
    /\ OpsOf({"push"}) = {}

Accepted(o) ==
    IF target = "gitlab" /\ o.op = "update" THEN o.status = 200
    ELSE Is2xx(o.status) /\ o.decoded

C35_PrivateOnlyIfPrivate ==
    /\ (ops # <<>> /\ config.RepoVisibility \notin {"", "auto"}) =>
          repoVisibility = config.RepoVisibility
    /\ \A k \in Mutations :
          /\ target \in {"codeberg", "bitbucket"} =>
                /\ ops[k].arg \in {"private", "public"}
                /\ ops[k].arg = "private" <=> repoVisibility = "private"
          /\ target = "gitlab" => ops[k].arg = repoVisibility
          /\ Is2xx(ops[k].status) => remote[IterName] = ops[k].arg
    /\ \A k \in OpsOf({"lookup"}) :
          (target \in {"codeberg", "bitbucket"} /\ ~ops[k].err /\ ops[k].arg # "absent") =>
             (StepAfter(k) = "push" <=>
                ((ops[k].arg = "private") <=> (repoVisibility = "private")))

C35_Witness ==
    /\ target = "codeberg"
    /\ config.RepoVisibility = "internal"
    /\ repoVisibility = "internal"
    /\ Len(ops) = 3
    /\ ops[1].op = "lookup" /\ ops[1].arg = "private"
    /\ ops[2].op = "update" /\ ops[2].arg = "public" /\ ~ops[2].err
    /\ ops[3].op = "push"
    /\ remote[1] = "public"

\* How the last mirrorReposFromGitHub for the name n ended, "" for never.
LastMirror(n) ==
    IF \E p \in mirrorEnd : p[1] = n
    THEN (CHOOSE p \in mirrorEnd : p[1] = n)[2]
    ELSE ""

\* A mirror whose last mirrorReposFromGitHub returned nil is in the backup
\* directory (until a recovery has removed it to clone again), one whose last
\* call returned an error is not; inside an iteration, once the mirror step has
\* succeeded the mirror is there.
C36_State ==
    /\ \A p \in mirrorEnd :
          /\ \A q \in mirrorEnd : q[1] = p[1] => q = p
          /\ p[2] = "ok" => (p[1] \in disk \/ (pc = "reclone" /\ p[1] = repoName))
          /\ p[2] \in {"clone", "reclone"} => p[1] \notin disk
    /\ pc \in {"lookup", "create", "update", "push"} =>
          /\ LastMirror(repoName) = "ok"
          /\ repoName \in disk
    /\ (Between /\ outcome # <<>>) =>
          (outcome[IterIdx] = "mirror" <=> LastMirror(IterName) \in {"clone", "reclone"})

\* Where mirrorReposFromGitHub starts, it fetches a mirror whose last call
\* returned nil and clones one whose last call returned an error; and the
\* backup directory changes only inside mirrorReposFromGitHub, by the mirror of
\* the current repository: between runs it stays as it is.
C36_Step ==
    /\ (pc = "mirror" /\ LastMirror(repoName) = "ok") =>
          ops' = <<ops'[1]>> /\ ops'[1].op = "fetch"
    /\ (pc = "mirror" /\ LastMirror(repoName) \in {"clone", "reclone"}) =>
          ops' = <<ops'[1]>> /\ ops'[1].op = "clone"
    /\ disk' # disk =>
          /\ pc \in {"mirror", "remove", "reclone"}
          /\ (disk' \ disk) \cup (disk \ disk') = {repoName}

\* C36: mirrorReposFromGitHub returns nil only with the mirror directory in
\* place; after a failed fetch and a failed clone behind it the mirror is
\* gone, and the next run clones that repository; after a call that returned
\* nil the next run fetches.
C36_MirrorAcrossRuns == []C36_State /\ [][C36_Step]_vars

C36_Witness ==
    /\ run = 2
    /\ pc = "mirror"
    /\ ops = <<>>
    /\ LastMirror(repoName) = "reclone"
    /\ repoName \notin disk
    /\ \E n \in disk : LastMirror(n) = "ok"

\* The listing main goes through: what getGitHubRepos returned, cut down to
\* the first entry named by -repo when the flag is set.
FilteredListing ==
    IF repoFilter = 0 THEN Listed ELSE FilterRepos(Listed, repoFilter)

\* The run ended, its listing was returned to main, and every entry of the
\* filtered listing was started.
C37_AllStarted ==
    (pc = "exit" /\ ~endless /\ listEnd \in {"empty", "error", "decode"}) =>
        Len(outcome) = Len(FilteredListing)

\* As stated: every run that ends has started each entry of the filtered
\* listing once.
C37_AsStated == []C37_AllStarted

\* A run of a source that ends its listing comes to its end.
C37_Terminates == (~endless) => <>(pc = "exit")

\* The entries started so far are the first entries of repos, one iteration
\* each; a run that returns from main after the loop went through repos, which
\* is the filtered listing with its repeated names; a run that ended non-zero
\* started none.  Against a source that answers every request with a non-empty
\* page the listing is still being read.
C37_State ==
    /\ Len(outcome) = idx - 1
    /\ idx <= Len(repos) + 1
    /\ InBody => idx <= Len(repos)
    /\ (pc = "exit" /\ exitCode = 0) =>
          /\ idx = Len(repos) + 1
          /\ ~endless => repos = FilteredListing
    /\ (pc = "exit" /\ exitCode # 0) => outcome = <<>> /\ ops = <<>>
    /\ endless => listEnd # "empty"
    /\ (endless /\ requests > 0 /\ listEnd = "") => pc = "list" /\ exitCode = -1

\* The loop starts the entry after the ones it finished, finishes the entry
\* it started, and never goes back; repos is fixed once the loop runs.
C37_Step ==
    /\ (pc = "loop" /\ pc' # "loop" /\ pc' # "exit") =>
          /\ pc' = "mirror"
          /\ idx' = idx
          /\ idx <= Len(repos)
          /\ repoName' = repos[Len(outcome) + 1].Name
    /\ (pc = "loop" /\ pc' = "exit") => idx = Len(repos) + 1
    /\ outcome' # outcome =>
          /\ InBody
          /\ Len(outcome') = Len(outcome) + 1
          /\ SubSeq(outcome', 1, Len(outcome)) = outcome
          /\ idx' = idx + 1
          /\ pc' = "loop"
    /\ idx' # idx => outcome' # outcome
    /\ ~InSetup => repos' = repos

\* C37: a run whose source ends the listing (an empty page, a status outside
\* 2xx, a failed request) comes to its end; when it returns from main with
\* exit code 0 it has started each entry of the filtered listing exactly once,
\* in listing order, repeated names included, and when it ends non-zero it
\* has started none; against a source that answers every page request with a
\* non-empty page the listing never ends.
C37_Termination == C37_Terminates /\ []C37_State /\ [][C37_Step]_vars

\* A finished run whose listing named one repository twice: both entries went
\* through the loop.
C37_Witness ==
    /\ pc = "exit"
    /\ exitCode = 0
    /\ ~endless
    /\ Len(repos) = 2
    /\ repos[1].Name = repos[2].Name
    /\ Len(outcome) = 2

\* Against an endless source the listing has asked for MaxRequests pages and
\* is still asking.
C37_EndlessWitness ==
    /\ endless
    /\ pc = "list"
    /\ requests = MaxRequests
    /\ listEnd = ""
    /\ Len(repos) = MaxRequests * Len(github)
============================================================================
